---- MODULE Spec2Model ----
(***************************************************************************)
(* Verification model of lua-pthread.                                      *)
(*                                                                         *)
(*   Spec        the queue engine of src/src/queue.c used by one caller at *)
(*               a time (every queue_* call runs from lock to unlock).     *)
(*   ThreadSpec  the thread lifecycle of src/src/lpthread.c and            *)
(*               src/src/self.c: one parent handle and its child thread,   *)
(*               interleaved statement by statement.                       *)
(*   SpawnSpec   new_lua with queue handles passed to the spawned thread.  *)
(*   ConcSpec    the parent and the spawned thread calling queue_push and  *)
(*               queue_pop under q->mutex (ConcLive adds fairness).        *)
(*   CondSpec    the start handshake of src/pthread.c on CREATION_COND.    *)
(*   RaceSpec    the last queue_unref against one other call on the queue. *)
(*   RetrySpec   the EINTR loops around the pipe reads and writes.         *)
(*   ValSpec     Lua values through push_lua and pop_lua of lqueue.c.      *)
(*   WorkerSpec  the worker thread of src/pthread.c and its task stack     *)
(*               (WorkerLive adds fairness).                               *)
(*   MboxSpec    two peer mailboxes of src/src/mbox.c sending to and       *)
(*               receiving from each other.                                *)
(*                                                                         *)
(* System calls on the pipes take an errno outcome from the environment:   *)
(* "OK" lets the call run against the pipe's contents, "EINTR" and "EIO"   *)
(* make it fail with that errno.                                           *)
(***************************************************************************)
EXTENDS Integers, Sequences, FiniteSets, TLC

\* ------------------------------------------------------------------------
\* Bounds
\* ------------------------------------------------------------------------
\* number of payloads a run allocates (payload identities 1..MaxPush)
MaxPush == 3
\* number of queue_ref calls a run makes
MaxRef == 2
\* largest maxitem argument given to queue_new
MaxItemArg == 2
\* bytes a pipe buffers before write() reports EAGAIN (scaled down)
PipeCap == 2
\* size_t arithmetic is modulo SizeMod (scaled down from 2^64)
SizeMod == 65536
\* sizeof(errmsg): BUFSIZ scaled down
ErrBufSize == 4
\* the most queue handles passed to one spawn
MaxChan == 2

\* ------------------------------------------------------------------------
\* Program constants and input sets
\* ------------------------------------------------------------------------
NULL == 0
\* sizeof(queue_item_t): two pointers, a size_t and a pointer on LP64
ItemSize == 32
QUEUE_STATUS_READABLE == 1
QUEUE_STATUS_WRITABLE == 2
\* payload sizes handed to queue_push
Sizes == {8, 60, 100}
\* maxsize arguments handed to queue_new
MaxSizeArgs == {-1, 0, 80}
\* errno outcomes the environment can force on one system call
Errnos == {"OK", "EINTR", "EIO"}
\* outcomes of the first attempt and of the retry of one pipe operation
\* (the retry's outcome matters only after EINTR)
Envs == {<<"OK", "OK">>, <<"EIO", "OK">>} \cup {<<"EINTR", b>> : b \in Errnos}
\* whether an operation run under env ends in an error
EnvFails(env) == env[1] = "EIO" \/ (env[1] = "EINTR" /\ env[2] # "OK")

VARIABLES
    \* ---- queue engine (src/src/queue.c) ----
    q,          \* the queue_t fields; q.freed after free(q)
    node,       \* the allocated queue_item_t nodes, by address
    pipe,       \* bytes buffered in the readable / writable pipes
    op,         \* the last queue call: name, arguments, return value
    pushed,     \* payloads accepted by queue_push, in order
    popped,     \* payloads returned by queue_pop, in order
    deleted,    \* payloads passed to delete_cb, in order
    nalloc,     \* payloads allocated so far
    nref,       \* queue_ref calls made
    nunref,     \* queue_unref calls made
    \* ---- thread lifecycle (src/src/lpthread.c, src/src/self.c,
    \*      src/src/pthread.c) ----
    design,     \* which module made the handle: "lpthread" or "pthread"
    th,         \* the lpthread_t fields: status, pipefd, cancelfd
    fds,        \* the descriptors of the handle that are open
    cpipe,      \* bytes buffered in the completion pipe
    kpipe,      \* bytes buffered in the cancellation pipe
    child,      \* the spawned thread: pc, lua_status, cancellation state
    ppc,        \* where the parent is inside a blocking handle method
    res,        \* the last handle method the parent ran and its result
    joined,     \* number of pthread_join calls that returned
    nstatus,    \* number of stores to th->status by the child
    nsentinel,  \* number of bytes written to the completion pipe
    \* ---- queue handles and callers (src/src/lqueue.c, queue mutex) ----
    hnd,        \* the lpthread_queue_t handles of the parent and the child
    mutex,      \* the owner of q->mutex
    qop,        \* the queue call each thread is inside of
    spawn,      \* the new_lua call made: arguments, failure met, outcome
    \* ---- start handshake of src/pthread.c ----
    cre,        \* CREATION_MUTEX, the waiters on CREATION_COND, the
                \* alloc_lua call of each caller and the threads created
    \* ---- one pipe I/O loop run on its own ----
    io,         \* the loop, the errno outcomes it meets, attempts, result
    \* ---- Lua values in the queue (src/src/lqueue.c) ----
    lq,         \* the Lua build, the qdata_t items on the heap, the values
                \* pushed and the values popped
    \* ---- worker thread of src/pthread.c ----
    wk,         \* the worker's position, the task stack, the tasks run,
                \* th->join and the positions of call_lua and gc_lua
    \* ---- mailboxes of src/src/mbox.c ----
    mb          \* the mutexes, the senders' positions, the inbox queues, the
                \* elements, and the elements sent to and received from each

qvars == <<q, node, pipe, op, pushed, popped, deleted, nalloc, nref, nunref>>
tvars == <<design, th, fds, cpipe, kpipe, child, ppc, res, joined, nstatus,
           nsentinel>>
xvars == <<io, lq, wk, mb>>
cvars == <<hnd, mutex, qop, spawn, cre, xvars>>
vars == <<qvars, tvars, cvars>>

\* ------------------------------------------------------------------------
\* size_t arithmetic
\* ------------------------------------------------------------------------
USub(a, b) == (a - b) % SizeMod
UAdd(a, b) == (a + b) % SizeMod

\* ------------------------------------------------------------------------
\* Pipe system calls: n is the number of bytes buffered in the pipe
\* ------------------------------------------------------------------------
sys_write(n, e) ==
    IF e # "OK" THEN [ret |-> -1, errno |-> e, n |-> n]
    ELSE IF n >= PipeCap THEN [ret |-> -1, errno |-> "EAGAIN", n |-> n]
    ELSE [ret |-> 1, errno |-> "OK", n |-> n + 1]

sys_read(n, e) ==
    IF e # "OK" THEN [ret |-> -1, errno |-> e, n |-> n]
    ELSE IF n = 0 THEN [ret |-> -1, errno |-> "EAGAIN", n |-> n]
    ELSE [ret |-> 1, errno |-> "OK", n |-> n - 1]

\* notify(): write one byte, EAGAIN counts as done, one retry on EINTR
notify(n, env) ==
    LET w1 == sys_write(n, env[1])
        w2 == sys_write(n, env[2])
    IN  IF w1.ret = -1 /\ w1.errno # "EAGAIN"
        THEN IF w1.errno = "EINTR"
             THEN IF w2.ret = -1 /\ w2.errno # "EAGAIN"
                  THEN [rc |-> -1, n |-> n, tries |-> 2]
                  ELSE [rc |-> 0, n |-> w2.n, tries |-> 2]
             ELSE [rc |-> -1, n |-> n, tries |-> 1]
        ELSE [rc |-> 0, n |-> w1.n, tries |-> 1]

\* unnotify(): read one byte, EAGAIN counts as done, one retry on EINTR
unnotify(n, env) ==
    LET r1 == sys_read(n, env[1])
        r2 == sys_read(n, env[2])
    IN  IF r1.ret = -1 /\ r1.errno # "EAGAIN"
        THEN IF r1.errno = "EINTR"
             THEN IF r2.ret = -1 /\ r2.errno # "EAGAIN"
                  THEN [rc |-> -1, n |-> n, tries |-> 2]
                  ELSE [rc |-> 0, n |-> r2.n, tries |-> 2]
             ELSE [rc |-> -1, n |-> n, tries |-> 1]
        ELSE [rc |-> 0, n |-> r1.n, tries |-> 1]

\* ------------------------------------------------------------------------
\* A call works on s = [q, node, pipe, rc, data, cb]: the queue_t, the item
\* nodes, the two pipes, the return value, the out-parameter *data and the
\* payloads handed to delete_cb during the call.
\* ------------------------------------------------------------------------
\* mutant: the writable signal is never raised
notify_writable_skip(s, env) == [s EXCEPT !.rc = 0]

notify_writable(s, env) ==
    LET r == notify(s.pipe.writable, env)
    IN  IF QUEUE_STATUS_WRITABLE \in s.q.status
        THEN [s EXCEPT !.rc = 0]
        ELSE IF r.rc # 0
        THEN [s EXCEPT !.rc = -1]
        ELSE [s EXCEPT !.q.status = @ \cup {QUEUE_STATUS_WRITABLE},
                       !.pipe.writable = r.n, !.rc = 0]

notify_readable(s, env) ==
    LET r == notify(s.pipe.readable, env)
    IN  IF QUEUE_STATUS_READABLE \in s.q.status
        THEN [s EXCEPT !.rc = 0]
        ELSE IF r.rc # 0
        THEN [s EXCEPT !.rc = -1]
        ELSE [s EXCEPT !.q.status = @ \cup {QUEUE_STATUS_READABLE},
                       !.pipe.readable = r.n, !.rc = 0]

unnotify_writable(s, env) ==
    LET r == unnotify(s.pipe.writable, env)
    IN  IF QUEUE_STATUS_WRITABLE \notin s.q.status
        THEN [s EXCEPT !.rc = 0]
        ELSE IF r.rc # 0
        THEN [s EXCEPT !.rc = -1]
        ELSE [s EXCEPT !.q.status = @ \ {QUEUE_STATUS_WRITABLE},
                       !.pipe.writable = r.n, !.rc = 0]

\* mutant: the flag is cleared but the byte is left in the pipe
unnotify_readable_keep_byte(s, env) ==
    IF QUEUE_STATUS_READABLE \notin s.q.status
    THEN [s EXCEPT !.rc = 0]
    ELSE [s EXCEPT !.q.status = @ \ {QUEUE_STATUS_READABLE}, !.rc = 0]

unnotify_readable(s, env) ==
    LET r == unnotify(s.pipe.readable, env)
    IN  IF QUEUE_STATUS_READABLE \notin s.q.status
        THEN [s EXCEPT !.rc = 0]
        ELSE IF r.rc # 0
        THEN [s EXCEPT !.rc = -1]
        ELSE [s EXCEPT !.q.status = @ \ {QUEUE_STATUS_READABLE},
                       !.pipe.readable = r.n, !.rc = 0]

\* ------------------------------------------------------------------------
\* queue_new
\* ------------------------------------------------------------------------
\* the fields queue_new sets before it signals writable
queue_new_fields(maxitem, maxsize) ==
    [delete_cb |-> TRUE,
     maxitem   |-> IF maxitem > 0 THEN maxitem ELSE 0,
     totalitem |-> 0,
     maxsize   |-> IF maxsize > 0 THEN maxsize ELSE 0,
     totalsize |-> 0,
     head      |-> NULL,
     tail      |-> NULL,
     refcnt    |-> 1,
     status    |-> {},
     freed     |-> FALSE]

queue_new(maxitem, maxsize, env) ==
    LET s0 == [q |-> queue_new_fields(maxitem, maxsize),
               node |-> <<>>,
               pipe |-> [readable |-> 0, writable |-> 0, closed |-> FALSE],
               rc |-> 0, data |-> NULL, cb |-> <<>>]
    IN  IF s0.q.maxitem = 0 \/ s0.q.totalitem < s0.q.maxitem
        THEN notify_writable(s0, env)
        ELSE s0

\* ------------------------------------------------------------------------
\* queue_ref / queue_unref
\* ------------------------------------------------------------------------
queue_ref(s) == [s EXCEPT !.q.refcnt = @ + 1, !.rc = 0]

\* mutant: only the head item is deleted, the rest is dropped
delete_all_once(s) ==
    IF s.q.head = NULL THEN s
    ELSE [s EXCEPT
             !.cb = IF s.q.delete_cb
                    THEN Append(@, s.node[s.q.head].data) ELSE @,
             !.node = <<>>,
             !.q.head = NULL]

\* the loop of queue_unref that deletes all items
RECURSIVE delete_all(_)
delete_all(s) ==
    IF s.q.head = NULL THEN s
    ELSE LET data == s.node[s.q.head].data
             next == s.node[s.q.head].next
         IN  delete_all([s EXCEPT
                 !.cb = IF s.q.delete_cb THEN Append(@, data) ELSE @,
                 !.node = [a \in DOMAIN s.node \ {s.q.head} |-> s.node[a]],
                 !.q.head = next])

\* mutant: the last-but-one reference already destroys the queue
queue_unref_early(s) ==
    IF s.q.refcnt > 2
    THEN [s EXCEPT !.q.refcnt = @ - 1, !.rc = 0]
    ELSE [delete_all(s) EXCEPT !.pipe.closed = TRUE, !.q.freed = TRUE, !.rc = 0]

queue_unref(s) ==
    IF s.q.refcnt > 1
    THEN [s EXCEPT !.q.refcnt = @ - 1, !.rc = 0]
    ELSE [delete_all(s) EXCEPT !.pipe.closed = TRUE, !.q.freed = TRUE, !.rc = 0]

queue_len(s) == s.q.totalitem

\* ------------------------------------------------------------------------
\* queue_push
\* ------------------------------------------------------------------------
\* mutant: the item bound is tested with > instead of >=
queue_full_off_by_one(qq, size) ==
    \/ qq.maxitem > 0 /\ qq.totalitem > qq.maxitem
    \/ /\ qq.maxsize > 0
       /\ \/ size > qq.maxsize
          \/ ItemSize > USub(qq.maxsize, size)
          \/ qq.totalsize > USub(USub(qq.maxsize, size), ItemSize)

\* mutant: the byte bound is tested without the size > maxsize guard
queue_full_unguarded(qq, size) ==
    \/ qq.maxitem > 0 /\ qq.totalitem >= qq.maxitem
    \/ /\ qq.maxsize > 0
       /\ \/ ItemSize > USub(qq.maxsize, size)
          \/ qq.totalsize > USub(USub(qq.maxsize, size), ItemSize)

\* the capacity test at the head of queue_push
queue_full(qq, size) ==
    \/ qq.maxitem > 0 /\ qq.totalitem >= qq.maxitem
    \/ /\ qq.maxsize > 0
       /\ \/ size > qq.maxsize
          \/ ItemSize > USub(qq.maxsize, size)
          \/ qq.totalsize > USub(USub(qq.maxsize, size), ItemSize)

\* the tail of queue_push: fill the item in and append it; item is its address
push_link(s, item, data, size) ==
    LET rec == [data |-> data, size |-> size,
                prev |-> IF s.q.tail # NULL THEN s.q.tail ELSE NULL,
                next |-> NULL]
        old == IF s.q.tail # NULL
               THEN [s.node EXCEPT ![s.q.tail].next = item]
               ELSE s.node
    IN  [s EXCEPT
            !.q.totalitem = @ + 1,
            !.q.totalsize = UAdd(@, UAdd(size, ItemSize)),
            !.node = [a \in DOMAIN old \cup {item} |->
                        IF a = item THEN rec ELSE old[a]],
            !.q.head = IF s.q.tail # NULL THEN @ ELSE item,
            !.q.tail = item,
            !.rc = 1]

\* alloc: whether calloc of the item succeeds
queue_push(s, data, size, env, alloc) ==
    IF queue_full(s.q, size)
    THEN LET u == unnotify_writable(s, env)
         IN  IF u.rc # 0 THEN [u EXCEPT !.rc = -1] ELSE [u EXCEPT !.rc = 0]
    ELSE IF ~alloc THEN [s EXCEPT !.rc = -1]
    ELSE LET n == IF s.q.totalitem = 0
                  THEN notify_readable(s, env)
                  ELSE [s EXCEPT !.rc = 0]
         IN  IF n.rc # 0 THEN [n EXCEPT !.rc = -1]
             ELSE push_link(n, data, data, size)

\* push_lua's mapping of queue_push's return value
push_lua_result(rc) ==
    CASE rc = -1 -> "Error"
      [] rc = 0  -> "Full"
      [] OTHER   -> "Accepted"

\* ------------------------------------------------------------------------
\* queue_pop
\* ------------------------------------------------------------------------
\* mutant: the head is unlinked but the tail's payload is returned
remove_head_lifo(s) ==
    LET item == s.q.head
        next == s.node[item].next
        rest == [a \in DOMAIN s.node \ {item} |-> s.node[a]]
    IN  [s EXCEPT
            !.data = s.node[s.q.tail].data,
            !.q.totalitem = @ - 1,
            !.q.totalsize = USub(@, UAdd(s.node[item].size, ItemSize)),
            !.q.head = next,
            !.q.tail = IF next # NULL THEN @ ELSE NULL,
            !.node = IF next # NULL
                     THEN [rest EXCEPT ![next].prev = NULL]
                     ELSE rest]

\* mutant: tail keeps pointing at the freed item when the list empties
remove_head_keep_tail(s) ==
    LET item == s.q.head
        next == s.node[item].next
        rest == [a \in DOMAIN s.node \ {item} |-> s.node[a]]
    IN  [s EXCEPT
            !.data = s.node[item].data,
            !.q.totalitem = @ - 1,
            !.q.totalsize = USub(@, UAdd(s.node[item].size, ItemSize)),
            !.q.head = next,
            !.node = IF next # NULL
                     THEN [rest EXCEPT ![next].prev = NULL]
                     ELSE rest]

remove_head(s) ==
    LET item == s.q.head
        next == s.node[item].next
        rest == [a \in DOMAIN s.node \ {item} |-> s.node[a]]
    IN  [s EXCEPT
            !.data = s.node[item].data,
            !.q.totalitem = @ - 1,
            !.q.totalsize = USub(@, UAdd(s.node[item].size, ItemSize)),
            !.q.head = next,
            !.q.tail = IF next # NULL THEN @ ELSE NULL,
            !.node = IF next # NULL
                     THEN [rest EXCEPT ![next].prev = NULL]
                     ELSE rest]

queue_pop(s, envr, envw) ==
    IF s.q.head = NULL THEN [s EXCEPT !.rc = 0]
    ELSE LET u == IF s.q.totalitem = 1
                  THEN unnotify_readable(s, envr)
                  ELSE [s EXCEPT !.rc = 0]
             w == notify_writable(u, envw)
         IN  IF u.rc # 0 THEN [u EXCEPT !.rc = -1]
             ELSE IF w.rc # 0 THEN [w EXCEPT !.rc = -1]
             ELSE [remove_head(w) EXCEPT !.rc = 0]

\* pop_lua's reading of queue_pop's result (data starts out NULL)
pop_lua_result(rc, data) ==
    IF rc # 0 THEN "Error"
    ELSE IF data = NULL THEN "Empty"
    ELSE "Item"

\* ------------------------------------------------------------------------
\* Thread handle constants (src/src/lpthread.h)
\* ------------------------------------------------------------------------
THREAD_RUNNING == 0
THREAD_TERMINATED == 1
THREAD_FAILED == 2
THREAD_CANCELLED == 3
\* lua_status while the program is running, after a normal return, and after
\* an uncaught error (LUA_ERRRUN)
STILL_RUNNING == -1
LUA_OK == 0
LUA_ERRRUN == 2
\* the descriptors pipe() hands out for pipefd and cancelfd
PipeFds == <<3, 4>>
CancelFds == <<5, 6>>

\* no thread handle exists (the queue is used on its own)
TNone ==
    /\ th = [status |-> THREAD_RUNNING, pipefd |-> <<0, 0>>,
             cancelfd |-> <<0, 0>>, errmsg |-> <<>>]
    /\ fds = {}
    /\ cpipe = 0
    /\ kpipe = 0
    /\ child = [pc |-> "none", lua_status |-> STILL_RUNNING,
                cancel_req |-> FALSE, canceling |-> FALSE, ctx |-> "none",
                err |-> <<>>]
    /\ ppc = "none"
    /\ res = [name |-> "none", val |-> "none", fault |-> FALSE, tick |-> FALSE]
    /\ joined = 0
    /\ nstatus = 0
    /\ nsentinel = 0

TIdle == design = "none" /\ TNone

\* no queue handle is tracked and nobody is inside a queue call
NoOp == [pc |-> "idle", kind |-> "none", data |-> NULL, rc |-> 0, seq |-> 0]

\* the callers of alloc_lua of src/pthread.c
Spawners == {1, 2}

\* no alloc_lua call was made
CreIdle ==
    [mutex |-> 0,
     sp |-> [p \in Spawners |->
               [pc |-> "idle", n |-> 0, rc |-> 0, by |-> <<0, 0>>,
                out |-> "none"]],
     pend |-> {},
     started |-> {},
     killed |-> FALSE]

\* no pipe I/O loop is run on its own
IoNone == [who |-> "none", envs |-> <<>>, n |-> 0, tries |-> 0, out |-> "none"]

\* no Lua value was pushed
LqNone == [build |-> "none", heap |-> <<>>, vin |-> <<>>, vout |-> <<>>]

\* no worker thread was created
WkNone == [pc |-> "none", tasks |-> <<>>, cur |-> 0, done |-> <<>>, n |-> 0,
           join |-> 0, call |-> "idle", gc |-> "none"]

\* no mailbox was made
MbNone == [made |-> FALSE]

XIdle == io = IoNone /\ lq = LqNone /\ wk = WkNone /\ mb = MbNone

\* no queue handle, no queue call, no spawn and no alloc_lua call
HIdle ==
    /\ cre = CreIdle
    /\ hnd = [p |-> "none", c |-> <<>>]
    /\ mutex = "none"
    /\ qop = [p |-> NoOp, c |-> NoOp]
    /\ spawn = [k |-> 0, fail |-> "none", out |-> "none"]

CIdle == HIdle /\ XIdle

\* ------------------------------------------------------------------------
\* The queue used by one caller at a time
\* ------------------------------------------------------------------------
\* the caller's view of the queue at the start of a call
Cur == [q |-> q, node |-> node, pipe |-> pipe,
        rc |-> 0, data |-> NULL, cb |-> <<>>]

NoEnv == <<"OK", "OK">>

QInit ==
    /\ \E maxitem \in -1..MaxItemArg, maxsize \in MaxSizeArgs :
         LET r == queue_new(maxitem, maxsize, NoEnv)
         IN  /\ q = r.q
             /\ node = r.node
             /\ pipe = r.pipe
    /\ op = [name |-> "new", rc |-> 0, data |-> NULL, size |-> 0,
             fault |-> FALSE]
    /\ pushed = <<>>
    /\ popped = <<>>
    /\ deleted = <<>>
    /\ nalloc = 0
    /\ nref = 0
    /\ nunref = 0
    /\ TIdle
    /\ CIdle

\* push_lua: allocate the payload, queue_push it, free it unless accepted
QueuePush ==
    /\ ~q.freed
    /\ nalloc < MaxPush
    /\ \E size \in Sizes, env \in Envs, alloc \in BOOLEAN :
         LET data == nalloc + 1
             r == queue_push(Cur, data, size, env, alloc)
         IN  /\ q' = r.q
             /\ node' = r.node
             /\ pipe' = r.pipe
             /\ op' = [name |-> "push", rc |-> r.rc, data |-> data,
                       size |-> size, fault |-> EnvFails(env)]
             /\ pushed' = IF r.rc = 1 THEN Append(pushed, data) ELSE pushed
             /\ nalloc' = IF r.rc = 1 THEN nalloc + 1 ELSE nalloc
             /\ UNCHANGED <<popped, deleted, nref, nunref, tvars, cvars>>

\* pop_lua: queue_pop, the payload passes to the caller
QueuePop ==
    /\ ~q.freed
    /\ \E envr \in Envs, envw \in Envs :
         LET r == queue_pop(Cur, envr, envw)
         IN  /\ q' = r.q
             /\ node' = r.node
             /\ pipe' = r.pipe
             /\ op' = [name |-> "pop", rc |-> r.rc, data |-> r.data,
                       size |-> 0,
                       fault |-> EnvFails(envr) \/ EnvFails(envw)]
             /\ popped' = IF pop_lua_result(r.rc, r.data) = "Item"
                          THEN Append(popped, r.data) ELSE popped
             /\ UNCHANGED <<pushed, deleted, nalloc, nref, nunref, tvars, cvars>>

QueueRef ==
    /\ ~q.freed
    /\ nref < MaxRef
    /\ LET r == queue_ref(Cur)
       IN  /\ q' = r.q
           /\ op' = [name |-> "ref", rc |-> r.rc, data |-> NULL,
                     size |-> 0, fault |-> FALSE]
    /\ nref' = nref + 1
    /\ UNCHANGED <<node, pipe, pushed, popped, deleted, nalloc, nunref, tvars, cvars>>

QueueUnref ==
    /\ ~q.freed
    /\ LET r == queue_unref(Cur)
       IN  /\ q' = r.q
           /\ node' = r.node
           /\ pipe' = r.pipe
           /\ deleted' = deleted \o r.cb
           /\ op' = [name |-> "unref", rc |-> r.rc, data |-> NULL,
                     size |-> 0, fault |-> FALSE]
    /\ nunref' = nunref + 1
    /\ UNCHANGED <<pushed, popped, nalloc, nref, tvars, cvars>>

QNext == QueuePush \/ QueuePop \/ QueueRef \/ QueueUnref

\* ------------------------------------------------------------------------
\* Properties of the queue (checked under Spec)
\* ------------------------------------------------------------------------
IsPrefix(a, b) == Len(a) <= Len(b) /\ SubSeq(b, 1, Len(a)) = a

\* the payloads linked from a, following next
RECURSIVE Walk(_)
Walk(a) == IF a = NULL THEN <<>> ELSE <<node[a].data>> \o Walk(node[a].next)

Contents == Walk(q.head)

Signaled(n) == n > 0

\* C1: the payloads returned by successful pops are the accepted pushes in
\* push order (popped is a prefix of pushed), and whenever as many payloads
\* were popped as were accepted, len() is 0 and the readable descriptor is
\* not signaled.
C1_Fifo ==
    /\ IsPrefix(popped, pushed)
    /\ (~q.freed /\ Len(popped) = Len(pushed))
         => (queue_len(Cur) = 0 /\ ~Signaled(pipe.readable))

\* pushes and pops were interleaved and every accepted payload was popped
C1_Witness ==
    /\ ~q.freed
    /\ Len(pushed) = MaxPush
    /\ popped = pushed
    /\ op.name = "pop"
    /\ pop_lua_result(op.rc, op.data) = "Item"

\* C2: with maxitem = N > 0, a push made while len() = N leaves the nodes,
\* their order, totalitem and totalsize unchanged and is reported as Full
\* (as Error only when the read that clears the writable signal fails).
C2_FullPushFrame ==
    [][(/\ ~q.freed
        /\ q.maxitem > 0
        /\ queue_len(Cur) = q.maxitem
        /\ op'.name = "push")
       => (/\ node' = node
           /\ q'.head = q.head
           /\ q'.tail = q.tail
           /\ q'.totalitem = q.totalitem
           /\ q'.totalsize = q.totalsize
           /\ pushed' = pushed
           /\ \/ push_lua_result(op'.rc) = "Full"
              \/ op'.fault /\ push_lua_result(op'.rc) = "Error")]_vars

\* maxitem = 2: the third push returned Full and len() is still 2
C2_Witness ==
    /\ ~q.freed
    /\ q.maxitem = 2
    /\ op.name = "push"
    /\ push_lua_result(op.rc) = "Full"
    /\ queue_len(Cur) = 2
    /\ Len(pushed) = 2

\* C3 as claimed: between operations the writable descriptor is signaled if
\* and only if maxitem = 0 or len() < maxitem.
C3_Original ==
    ~q.freed =>
        (Signaled(pipe.writable)
           <=> (q.maxitem = 0 \/ queue_len(Cur) < q.maxitem))

\* C3 as amended: the writable signal is cleared by a push that is rejected
\* as Full (not by the push that fills the queue) and is raised again by the
\* next successful pop; on a queue without a byte bound it is therefore
\* signaled whenever maxitem = 0 or len() < maxitem.
C3_WritableSignal ==
    /\ [](~q.freed =>
            /\ Signaled(pipe.writable) <=> QUEUE_STATUS_WRITABLE \in q.status
            /\ (q.maxsize = 0 /\ (q.maxitem = 0 \/ queue_len(Cur) < q.maxitem))
                 => Signaled(pipe.writable))
    /\ [][~q'.freed =>
            /\ (Signaled(pipe.writable) /\ ~Signaled(pipe'.writable))
                 => (op'.name = "push" /\ push_lua_result(op'.rc) = "Full")
            /\ (op'.name = "push" /\ push_lua_result(op'.rc) = "Full")
                 => ~Signaled(pipe'.writable)
            /\ (op'.name = "pop" /\ pop_lua_result(op'.rc, op'.data) = "Item")
                 => Signaled(pipe'.writable)]_vars

\* a full queue that is still signaled writable, and one whose signal a
\* rejected push has cleared and a pop has raised again
C3_Witness ==
    /\ ~q.freed
    /\ q.maxitem = 2
    /\ q.maxsize = 0
    /\ op.name = "pop"
    /\ pop_lua_result(op.rc, op.data) = "Item"
    /\ queue_len(Cur) = 1
    /\ Len(pushed) = 2
    /\ Signaled(pipe.writable)

\* C4: between operations the readable descriptor is signaled if and only
\* if totalitem > 0.
C4_ReadableSignal ==
    ~q.freed => (Signaled(pipe.readable) <=> q.totalitem > 0)

\* C5: the queue is destroyed by exactly the queue_unref calls made while
\* refcnt is 1; after one ref and one unref a fresh queue is alive with
\* refcnt 1, and it is destroyed once unref calls outnumber ref calls.
C5_DestroyedAtLastUnref ==
    /\ [](/\ q.freed <=> nunref = nref + 1
          /\ ~q.freed => q.refcnt = 1 + nref - nunref
          /\ (nref = 1 /\ nunref = 1) => (~q.freed /\ q.refcnt = 1))
    /\ [][(q'.freed # q.freed)
            <=> (~q.freed /\ q.refcnt = 1 /\ nunref' = nunref + 1)]_vars

\* ref, unref, unref on a fresh queue: destroyed by the second unref
C5_Witness ==
    /\ q.freed
    /\ nref = 1
    /\ nunref = 2
    /\ op.name = "unref"

\* C6: every accepted payload is in exactly one place: returned by a pop, or
\* still linked in the live queue, or handed to delete_cb by the unref that
\* destroyed the queue; the three sequences together are the accepted pushes,
\* each once and in order, and delete_cb is not called on a live queue.
C6_ExactlyOnce ==
    /\ pushed = popped \o (IF q.freed THEN deleted ELSE Contents)
    /\ ~q.freed => deleted = <<>>
    /\ q.freed => DOMAIN node = {}
    /\ \A i, j \in 1..Len(pushed) : pushed[i] = pushed[j] => i = j

\* a queue destroyed with payloads both popped and deleted
C6_Witness ==
    /\ q.freed
    /\ Len(popped) >= 1
    /\ Len(deleted) >= 2

\* ------------------------------------------------------------------------
\* Thread lifecycle: the handle methods of src/src/lpthread.c (design
\* "lpthread") and src/src/pthread.c (design "pthread"), and the spawned
\* thread of src/src/self.c
\* ------------------------------------------------------------------------
\* sizeof(buf) in join_lua
JoinBufSize == 3

\* read(fd, buf, len) on a non-blocking pipe holding n bytes
sys_readn(n, e, len) ==
    IF e # "OK" THEN [ret |-> -1, errno |-> e, n |-> n]
    ELSE IF n = 0 THEN [ret |-> -1, errno |-> "EAGAIN", n |-> n]
    ELSE IF n < len THEN [ret |-> n, errno |-> "OK", n |-> 0]
    ELSE [ret |-> len, errno |-> "OK", n |-> n - len]

\* the error values a failing program can leave on its stack
ErrTexts == {<<1>>, <<1, 2, 3>>, <<1, 2, 3, 4, 5>>}

\* mutant: a normal return is stored as a failure
on_cleanup_status_failed(lua_status) ==
    CASE lua_status = STILL_RUNNING -> THREAD_CANCELLED
      [] OTHER                      -> THREAD_FAILED

\* errmsg as new_lua leaves it: memset(th, 0, sizeof(lpthread_t))
ZeroBuf == [i \in 1..ErrBufSize |-> 0]

\* mutant: the length is cut to sizeof(errmsg)
errmsg_copy_len_full(len) == IF len > ErrBufSize THEN ErrBufSize ELSE len

\* if (len > sizeof(errmsg) - 1) len = sizeof(errmsg) - 1
errmsg_copy_len(len) == IF len > ErrBufSize - 1 THEN ErrBufSize - 1 ELSE len

\* memcpy(errmsg, str, len) and, where the code has it, errmsg[len] = 0:
\* the bytes at every index written or already there (indices from 1)
errmsg_store(buf, str, term) ==
    LET len == errmsg_copy_len(Len(str))
        written == (1..len) \cup (IF term THEN {len + 1} ELSE {})
    IN  [i \in DOMAIN buf \cup written |->
           IF i <= len THEN str[i]
           ELSE IF term /\ i = len + 1 THEN 0
           ELSE buf[i]]

\* the C string that starts at the first byte of buf
RECURSIVE cstr_from(_, _)
cstr_from(buf, i) ==
    IF i \notin DOMAIN buf \/ buf[i] = 0 THEN <<>>
    ELSE <<buf[i]>> \o cstr_from(buf, i + 1)

cstr(buf) == cstr_from(buf, 1)

\* the default case of on_cleanup: the error value is copied into errmsg,
\* cut to sizeof(errmsg) - 1 bytes
on_cleanup_errmsg(lua_status, str, old) ==
    IF lua_status \in {STILL_RUNNING, LUA_OK} THEN old
    ELSE SubSeq(str, 1, errmsg_copy_len(Len(str)))

\* mutant: a cancelled thread leaves the status as it was
on_cleanup_status_skip(lua_status) ==
    CASE lua_status = STILL_RUNNING -> THREAD_RUNNING
      [] lua_status = LUA_OK        -> THREAD_TERMINATED
      [] OTHER                      -> THREAD_FAILED

\* the switch of on_cleanup: the status stored for a lua_status
on_cleanup_status(lua_status) ==
    CASE lua_status = STILL_RUNNING -> THREAD_CANCELLED
      [] lua_status = LUA_OK        -> THREAD_TERMINATED
      [] OTHER                      -> THREAD_FAILED

\* mutant: the status is trusted without looking at the pipe
status_lua_no_pipe_check(t) ==
    CASE t.status = THREAD_RUNNING    -> "running"
      [] t.status = THREAD_TERMINATED -> "terminated"
      [] t.status = THREAD_CANCELLED  -> "cancelled"
      [] OTHER                        -> "failed"

status_lua(t) ==
    IF t.pipefd[1] # -1 THEN "running"
    ELSE CASE t.status = THREAD_TERMINATED -> "terminated"
           [] t.status = THREAD_CANCELLED  -> "cancelled"
           [] OTHER                        -> "failed"

\* mutant: an empty pipe sends join_lua on to pthread_join
join_lua_read_blocking(t, n, env) ==
    LET r == sys_readn(n, env[1], JoinBufSize)
    IN  IF r.ret = 1 \/ r.errno = "EAGAIN"
        THEN [out |-> "force_join", n |-> r.n]
        ELSE [out |-> "error", n |-> r.n]

\* join_lua of lpthread.c from the read to FORCE_JOIN: what it does next
join_lua_read(t, n, env) ==
    LET r1 == sys_readn(n, env[1], JoinBufSize)
        r  == IF r1.ret = -1 /\ r1.errno = "EINTR"
              THEN sys_readn(n, env[2], JoinBufSize)
              ELSE r1
    IN  IF r.ret < -1 \/ r.ret > 1 THEN [out |-> "abort", n |-> r.n]
        ELSE IF r.ret = -1
        THEN IF r.errno = "EAGAIN" THEN [out |-> "again", n |-> r.n]
             ELSE IF r.errno = "EBADF" THEN [out |-> "force_join", n |-> r.n]
             ELSE [out |-> "error", n |-> r.n]
        ELSE IF r.ret = 0 THEN [out |-> "lua_error", n |-> r.n]
        ELSE IF t.status = THREAD_RUNNING THEN [out |-> "abort", n |-> r.n]
        ELSE [out |-> "force_join", n |-> r.n]

\* join_lua of pthread.c from the read to FORCE_JOIN
join_lua_read_v1(t, n, env) ==
    LET r == sys_readn(n, env[1], JoinBufSize)
    IN  IF r.ret = -1
        THEN IF r.errno = "EAGAIN" THEN [out |-> "again", n |-> r.n]
             ELSE IF r.errno = "EBADF"
             THEN IF t.status = THREAD_RUNNING
                  THEN [out |-> "again", n |-> r.n]
                  ELSE [out |-> "force_join", n |-> r.n]
             ELSE [out |-> "error", n |-> r.n]
        ELSE IF r.ret = 1
        THEN IF t.status = THREAD_RUNNING
             THEN [out |-> "lua_error", n |-> r.n]
             ELSE [out |-> "force_join", n |-> r.n]
        ELSE [out |-> "lua_error", n |-> r.n]

\* the result record of a handle method
Result(name, val, fault) ==
    [name |-> name, val |-> val, fault |-> fault, tick |-> ~res.tick]

\* the state after a successful new_lua
TInit ==
    /\ design \in {"lpthread", "pthread"}
    /\ th = [status |-> THREAD_RUNNING, pipefd |-> PipeFds,
             cancelfd |-> IF design = "lpthread" THEN CancelFds ELSE <<0, 0>>,
             errmsg |-> <<>>]
    /\ fds = IF design = "lpthread" THEN {3, 4, 5, 6} ELSE {3, 4}
    /\ cpipe = 0
    /\ kpipe = 0
    /\ child = [pc |-> "start", lua_status |-> STILL_RUNNING,
                cancel_req |-> FALSE, canceling |-> FALSE, ctx |-> "live",
                err |-> <<>>]
    /\ ppc = "idle"
    /\ res = [name |-> "new", val |-> "true", fault |-> FALSE, tick |-> FALSE]
    /\ joined = 0
    /\ nstatus = 0
    /\ nsentinel = 0

\* ---- the parent: handle methods ----
StatusLua ==
    /\ ppc = "idle"
    /\ qop.p.pc = "idle"
    /\ res' = Result("status", status_lua(th), FALSE)
    /\ UNCHANGED <<qvars, cvars, design, th, fds, cpipe, kpipe, child, ppc, joined,
                   nstatus,
                   nsentinel>>

\* join_lua up to its return or to the pthread_join it blocks in
JoinLua ==
    /\ ppc = "idle"
    /\ qop.p.pc = "idle"
    /\ \E env \in Envs :
         LET r == IF design = "lpthread"
                  THEN join_lua_read(th, cpipe, env)
                  ELSE join_lua_read_v1(th, cpipe, env)
         IN  IF th.pipefd[1] = -1
             THEN /\ res' = Result("join", "true", FALSE)
                  /\ UNCHANGED <<cpipe, ppc>>
             ELSE /\ cpipe' = r.n
                  /\ ppc' = CASE r.out = "force_join" -> "join_native"
                              [] r.out = "abort"      -> "aborted"
                              [] OTHER                -> "idle"
                  /\ res' = Result("join", r.out, env[1] # "OK")
    /\ UNCHANGED <<qvars, cvars, design, th, fds, kpipe, child, joined, nstatus,
                   nsentinel>>

\* mutant: the read side is closed but not marked closed
join_lua_close_unmarked(t) == t

\* join_lua after pthread_join: th->pipefd[0] = -1
join_lua_close(t) == [t EXCEPT !.pipefd[1] = -1]

\* FORCE_JOIN: pthread_join returns once the thread has exited
JoinNative ==
    /\ ppc = "join_native"
    /\ child.pc = "exited"
    /\ joined' = joined + 1
    /\ fds' = fds \ {th.pipefd[1]}
    /\ th' = join_lua_close(th)
    /\ ppc' = "idle"
    /\ res' = Result("force_join", "true", FALSE)
    /\ UNCHANGED <<qvars, cvars, design, cpipe, kpipe, child, nstatus, nsentinel>>

\* mutant: the write side is left marked open after the message was sent
cancel_lua_sent_unmarked(t) == t

\* cancel_lua after the message was written: th->cancelfd[1] = -1
cancel_lua_sent(t) == [t EXCEPT !.cancelfd[2] = -1]

\* cancel_lua up to its return or to the pthread_cancel it decided on;
\* the write to the cancellation pipe is repeated until it is not EINTR
CancelLua ==
    /\ ppc = "idle"
    /\ qop.p.pc = "idle"
    /\ \E coop \in BOOLEAN, e \in Errnos \ {"EINTR"} :
         IF design = "lpthread" /\ th.status # THREAD_RUNNING
         THEN /\ res' = Result("cancel", "true", FALSE)
              /\ UNCHANGED <<th, fds, kpipe, ppc>>
         ELSE IF design = "lpthread" /\ coop
         THEN IF th.cancelfd[2] = -1
              THEN /\ res' = Result("cancel", "true", FALSE)
                   /\ UNCHANGED <<th, fds, kpipe, ppc>>
              ELSE LET w == sys_write(kpipe, e)
                   IN  IF w.ret = 1
                       THEN /\ kpipe' = w.n
                            /\ fds' = fds \ {th.cancelfd[2]}
                            /\ th' = cancel_lua_sent(th)
                            /\ res' = Result("cancel", "true", FALSE)
                            /\ UNCHANGED ppc
                       ELSE /\ res' = Result("cancel", "error", TRUE)
                            /\ UNCHANGED <<th, fds, kpipe, ppc>>
         ELSE /\ ppc' = "cancel_native"
              /\ res' = Result("cancel", "pending", FALSE)
              /\ UNCHANGED <<th, fds, kpipe>>
    /\ UNCHANGED <<qvars, cvars, design, cpipe, child, joined, nstatus, nsentinel>>

\* pthread_cancel(th->id): marks the thread; on a thread that was already
\* joined the id is stale and the call may report success or ESRCH; on a
\* handle whose thread was never created the id is 0 and the call may
\* also crash
CancelNative ==
    /\ ppc = "cancel_native"
    /\ \E ok \in BOOLEAN, crash \in BOOLEAN :
         /\ (joined = 0 /\ child.pc # "none") => ok
         /\ crash => child.pc = "none"
         /\ res' = Result("cancel", IF ok THEN "true" ELSE "error", FALSE)
         /\ ppc' = IF crash THEN "aborted" ELSE "idle"
    /\ child' = IF joined = 0 /\ child.pc \notin {"exited", "none"}
                THEN [child EXCEPT !.cancel_req = TRUE]
                ELSE child
    /\ UNCHANGED <<qvars, cvars, design, th, fds, cpipe, kpipe, joined, nstatus,
                   nsentinel>>

\* gc_lua up to pthread_join: cancel the thread (lpthread.c: only while the
\* read side is open)
GcLua ==
    /\ ppc = "idle"
    /\ qop.p.pc = "idle"
    /\ IF design = "pthread" \/ th.pipefd[1] # -1
       THEN \E ok \in BOOLEAN, crash \in BOOLEAN :
              /\ (joined = 0 /\ child.pc # "none") => ok
              /\ crash => child.pc = "none"
              /\ ppc' = IF crash THEN "aborted"
                        ELSE IF ok /\ joined = 0 /\ child.pc # "none"
                        THEN "gc_join" ELSE "gc_close"
              /\ child' = IF joined = 0 /\ child.pc \notin {"exited", "none"}
                          THEN [child EXCEPT !.cancel_req = TRUE]
                          ELSE child
       ELSE /\ ppc' = "gc_close"
            /\ UNCHANGED child
    /\ res' = Result("gc", "pending", FALSE)
    /\ UNCHANGED <<qvars, cvars, design, th, fds, cpipe, kpipe, joined, nstatus,
                   nsentinel>>

GcJoin ==
    /\ ppc = "gc_join"
    /\ child.pc = "exited"
    /\ joined' = joined + 1
    /\ ppc' = "gc_close"
    /\ UNCHANGED <<qvars, cvars, design, th, fds, cpipe, kpipe, child, res, nstatus,
                   nsentinel>>

\* mutant: gc_lua closes the completion pipe only
gc_close_set_pipe_only(t, d) == {fd \in {t.pipefd[1], t.pipefd[2]} : fd > 0}

\* the descriptors the loop of gc_lua closes: those that are > 0
gc_close_set(t, d) ==
    {fd \in {t.pipefd[1], t.pipefd[2]} : fd > 0} \cup
    (IF d = "lpthread"
     THEN {fd \in {t.cancelfd[1], t.cancelfd[2]} : fd > 0} ELSE {})

\* the loop of gc_lua that closes the descriptors
GcClose ==
    /\ ppc = "gc_close"
    /\ fds' = fds \ gc_close_set(th, design)
    /\ ppc' = "gone"
    /\ res' = Result("gc", "done", FALSE)
    /\ UNCHANGED <<qvars, cvars, design, th, cpipe, kpipe, child, joined, nstatus,
                   nsentinel>>

\* ---- queue handles: lpthread_queue_t (src/src/lqueue.c) ----
\* a handle is "open", "closed" (close_lua ran) or "gone" (finalized)
\* mutant: close_lua does not mark the handle closed
queue_close_lua_unmarked(h, s) ==
    IF h = "open" THEN [h |-> "open", s |-> queue_unref(s)]
    ELSE [h |-> h, s |-> s]

queue_close_lua(h, s) ==
    IF h = "open" THEN [h |-> "closed", s |-> queue_unref(s)]
    ELSE [h |-> h, s |-> s]

queue_gc_lua(h, s) ==
    [h |-> "gone", s |-> IF h = "open" THEN queue_unref(s) ELSE s]

\* the finalizers of the first n handles of a context run
RECURSIVE finalize(_, _, _)
finalize(hs, s, n) ==
    IF n = 0 THEN [hs |-> hs, s |-> s]
    ELSE LET r == finalize(hs, s, n - 1)
             g == queue_gc_lua(r.hs[n], r.s)
         IN  [hs |-> [r.hs EXCEPT ![n] = g.h], s |-> g.s]

\* lua_close of a context: every handle in it is finalized
lua_close(hs, s) == finalize(hs, s, Len(hs))

OpenIn(hs, n) == Cardinality({i \in 1..n : hs[i] = "open"})

\* ---- the spawned thread: on_start and on_cleanup ----
ChildAlive == ppc \notin {"none", "aborted"}

\* pthread_cleanup_push, lua_status = -1, entry into lua_pcall
ChildStart ==
    /\ ChildAlive
    /\ child.pc = "start"
    /\ child' = [child EXCEPT !.pc = "pcall", !.lua_status = STILL_RUNNING]
    /\ UNCHANGED <<qvars, cvars, design, th, fds, cpipe, kpipe, ppc, res, joined,
                   nstatus,
                   nsentinel>>

\* the program reaches a cancellation point with a request pending: the
\* thread is cancelled and unwinds into the registered on_cleanup
ChildCancelledInProgram ==
    /\ ChildAlive
    /\ child.pc = "pcall"
    /\ qop.c.pc = "idle"
    /\ child.cancel_req /\ ~child.canceling
    /\ child' = [child EXCEPT !.pc = "cleanup", !.canceling = TRUE]
    /\ UNCHANGED <<qvars, cvars, design, th, fds, cpipe, kpipe, ppc, res, joined,
                   nstatus,
                   nsentinel>>

\* lua_pcall returns: the program returned or raised an error
ChildReturn ==
    /\ ChildAlive
    /\ child.pc = "pcall"
    /\ qop.c.pc = "idle"
    /\ \/ child' = [child EXCEPT !.pc = "pop", !.lua_status = LUA_OK]
       \/ \E str \in ErrTexts :
            child' = [child EXCEPT !.pc = "pop", !.lua_status = LUA_ERRRUN,
                                   !.err = str]
    /\ UNCHANGED <<qvars, cvars, design, th, fds, cpipe, kpipe, ppc, res, joined,
                   nstatus,
                   nsentinel>>

\* pthread_cleanup_pop(1): the handler is unregistered, then called
ChildCleanupPop ==
    /\ ChildAlive
    /\ child.pc = "pop"
    /\ child' = [child EXCEPT !.pc = "cleanup"]
    /\ UNCHANGED <<qvars, cvars, design, th, fds, cpipe, kpipe, ppc, res, joined,
                   nstatus,
                   nsentinel>>

\* on_cleanup: the switch that stores the terminal status
ChildCleanupStatus ==
    /\ ChildAlive
    /\ child.pc = "cleanup"
    /\ th' = [th EXCEPT
               !.errmsg = on_cleanup_errmsg(child.lua_status, child.err, @),
               !.status = on_cleanup_status(child.lua_status)]
    /\ nstatus' = nstatus + 1
    /\ child' = [child EXCEPT !.pc = "write"]
    /\ UNCHANGED <<qvars, cvars, design, fds, cpipe, kpipe, ppc, res, joined,
                   nsentinel>>

\* on_cleanup: write(th->parent->pipefd[1], "0", 1)
ChildCleanupWrite ==
    /\ ChildAlive
    /\ child.pc = "write"
    /\ ~(child.cancel_req /\ ~child.canceling)
    /\ cpipe' = cpipe + 1
    /\ nsentinel' = nsentinel + 1
    /\ child' = [child EXCEPT !.pc = "close"]
    /\ UNCHANGED <<qvars, cvars, design, th, fds, kpipe, ppc, res, joined, nstatus>>

\* write() is a cancellation point: with a request pending and the handler
\* already popped the thread is cancelled there, before or after the byte
\* has been written, and exits without running anything else
ChildCancelledAtWrite ==
    /\ ChildAlive
    /\ child.pc = "write"
    /\ child.cancel_req /\ ~child.canceling
    /\ \E wrote \in BOOLEAN :
         /\ cpipe' = IF wrote THEN cpipe + 1 ELSE cpipe
         /\ nsentinel' = IF wrote THEN nsentinel + 1 ELSE nsentinel
    /\ child' = [child EXCEPT !.pc = "exited", !.canceling = TRUE]
    /\ UNCHANGED <<qvars, cvars, design, th, fds, kpipe, ppc, res, joined, nstatus>>

\* on_cleanup: lua_close(th->L), which finalizes the queue handles of the
\* context (each open one takes the queue mutex to unref), then the thread
\* exits
ChildLuaClose ==
    /\ ChildAlive
    /\ child.pc = "close"
    /\ OpenIn(hnd.c, Len(hnd.c)) > 0 => mutex = "none"
    /\ LET r == lua_close(hnd.c, Cur)
       IN  /\ q' = r.s.q
           /\ node' = r.s.node
           /\ pipe' = r.s.pipe
           /\ deleted' = deleted \o r.s.cb
           /\ hnd' = [hnd EXCEPT !.c = r.hs]
    /\ nunref' = nunref + OpenIn(hnd.c, Len(hnd.c))
    /\ child' = [child EXCEPT !.pc = "exited", !.ctx = "closed"]
    /\ UNCHANGED <<xvars, cre, op, pushed, popped, nalloc, nref, mutex, qop, spawn,
                   design, th, fds, cpipe, kpipe, ppc, res, joined, nstatus,
                   nsentinel>>

\* lua_close runs finalizers that reach cancellation points (close()): with
\* a request pending the thread is cancelled before lua_close completes,
\* after some of the handles have been finalized
ChildCancelledAtClose ==
    /\ ChildAlive
    /\ child.pc = "close"
    /\ child.cancel_req /\ ~child.canceling
    /\ \E n \in 0..Len(hnd.c) :
         /\ OpenIn(hnd.c, n) > 0 => mutex = "none"
         /\ LET r == finalize(hnd.c, Cur, n)
            IN  /\ q' = r.s.q
                /\ node' = r.s.node
                /\ pipe' = r.s.pipe
                /\ deleted' = deleted \o r.s.cb
                /\ hnd' = [hnd EXCEPT !.c = r.hs]
         /\ nunref' = nunref + OpenIn(hnd.c, n)
    /\ child' = [child EXCEPT !.pc = "exited", !.canceling = TRUE]
    /\ UNCHANGED <<xvars, cre, op, pushed, popped, nalloc, nref, mutex, qop, spawn,
                   design, th, fds, cpipe, kpipe, ppc, res, joined, nstatus,
                   nsentinel>>

\* the queue of a run that only exercises the thread handle
QFixed ==
    LET r == queue_new(0, 0, NoEnv)
    IN  /\ q = r.q
        /\ node = r.node
        /\ pipe = r.pipe
        /\ op = [name |-> "new", rc |-> 0, data |-> NULL, size |-> 0,
                 fault |-> FALSE]
        /\ pushed = <<>>
        /\ popped = <<>>
        /\ deleted = <<>>
        /\ nalloc = 0
        /\ nref = 0
        /\ nunref = 0

ThreadInit == TInit /\ QFixed /\ CIdle

ThreadNext ==
    \/ StatusLua
    \/ JoinLua
    \/ JoinNative
    \/ CancelLua
    \/ CancelNative
    \/ GcLua
    \/ GcJoin
    \/ GcClose
    \/ ChildStart
    \/ ChildCancelledInProgram
    \/ ChildReturn
    \/ ChildCleanupPop
    \/ ChildCleanupStatus
    \/ ChildCleanupWrite
    \/ ChildCancelledAtWrite
    \/ ChildLuaClose
    \/ ChildCancelledAtClose

ThreadSpec == ThreadInit /\ [][ThreadNext]_vars

\* ------------------------------------------------------------------------
\* Spawn: new_lua and lpthread_self_start, queue handles of both contexts
\* ------------------------------------------------------------------------
\* where a spawn can fail: pipe(), fcntl(), luaL_newstate, loading the
\* modules, lua_load of the program, queue_ref, pthread_create
SpawnFails ==
    {"none", "pipe", "cancelpipe", "fcntl", "newstate", "dostring", "load",
     "ref", "create_eagain", "create_other"}

\* the message lua_load / luaL_dostring leave on the stack
LoadError == <<7, 7, 7, 7, 7>>

RECURSIVE ref_n(_, _)
ref_n(s, n) == IF n = 0 THEN s ELSE ref_n(queue_ref(s), n - 1)

\* mutant: the handles of the new context are made without queue_ref
new_pthread_self_noref(s, nchan, fail) ==
    LET n == IF fail = "ref" THEN nchan - 1 ELSE nchan
    IN  [s |-> s, hs |-> [i \in 1..n |-> "open"], ok |-> fail # "ref"]

\* new_pthread_self: one queue_ref and one handle for each argument, in
\* order; with fail = "ref" the queue_ref of the last argument fails and
\* the function raises
new_pthread_self(s, nchan, fail) ==
    LET n == IF fail = "ref" THEN nchan - 1 ELSE nchan
    IN  [s |-> ref_n(s, n), hs |-> [i \in 1..n |-> "open"],
         ok |-> fail # "ref"]

\* FAIL_LUA: the message is copied into th->errmsg, cut to the buffer
fail_lua_errmsg(str) == SubSeq(str, 1, errmsg_copy_len(Len(str)))

\* mutant: the result of lua_load is not tested
load_failed_unchecked(fail) == fail = "dostring"

\* rc != 0 after luaL_dostring and after lua_load
load_failed(fail) == fail \in {"dostring", "load"}

\* lpthread_self_start; the value it returns is errno as it is at the
\* return statement: after a failed pthread_create lua_close runs first,
\* and each queue_unref made by a finalizer stores the result of
\* pthread_mutex_lock, 0, into errno
lpthread_self_start(s, nchan, fail) ==
    IF fail = "newstate"
    THEN [errno |-> "ENOMEM", s |-> s, hs |-> <<>>, ctx |-> "none",
          started |-> FALSE, errmsg |-> <<>>, nref |-> 0, nunref |-> 0]
    ELSE IF load_failed(fail)
    THEN [errno |-> IF fail = "load" THEN "EINVAL" ELSE "ECANCELED",
          s |-> s, hs |-> <<>>, ctx |-> "closed", started |-> FALSE,
          errmsg |-> fail_lua_errmsg(LoadError), nref |-> 0, nunref |-> 0]
    ELSE LET r == new_pthread_self(s, nchan, fail)
             c == lua_close(r.hs, r.s)
             n == Len(r.hs)
         IN  IF ~r.ok
             THEN [errno |-> "EINVAL", s |-> c.s, hs |-> c.hs,
                   ctx |-> "closed", started |-> FALSE,
                   errmsg |-> fail_lua_errmsg(LoadError),
                   nref |-> n, nunref |-> n]
             ELSE IF fail \in {"create_eagain", "create_other"}
             THEN [errno |-> IF n > 0 THEN "OK"
                             ELSE IF fail = "create_eagain" THEN "EAGAIN"
                             ELSE "EPERM",
                   s |-> c.s, hs |-> c.hs, ctx |-> "closed",
                   started |-> FALSE, errmsg |-> <<>>,
                   nref |-> n, nunref |-> n]
             ELSE [errno |-> "OK", s |-> r.s, hs |-> r.hs, ctx |-> "live",
                   started |-> TRUE, errmsg |-> <<>>,
                   nref |-> n, nunref |-> 0]

\* the descriptors stored in a handle by pipe()
FdsOf(t) ==
    {fd \in {t.pipefd[1], t.pipefd[2], t.cancelfd[1], t.cancelfd[2]} : fd > 0}

\* the loop at FAIL: closes the descriptors that are > 0
fail_close_set(t, d) ==
    {fd \in {t.pipefd[1], t.pipefd[2]} : fd > 0} \cup
    (IF d = "lpthread"
     THEN {fd \in {t.cancelfd[1], t.cancelfd[2]} : fd > 0} ELSE {})

ThZero == [status |-> THREAD_RUNNING, pipefd |-> <<0, 0>>,
           cancelfd |-> <<0, 0>>, errmsg |-> <<>>]

\* new_lua of lpthread.c
new_lua(s, nchan, fail) ==
    LET th1 == CASE fail = "pipe"       -> ThZero
                 [] fail = "cancelpipe" -> [ThZero EXCEPT !.pipefd = PipeFds]
                 [] OTHER -> [ThZero EXCEPT !.pipefd = PipeFds,
                                            !.cancelfd = CancelFds]
        r   == lpthread_self_start(s, nchan, fail)
        th2 == [th1 EXCEPT !.errmsg = r.errmsg]
    IN  IF fail \in {"pipe", "cancelpipe", "fcntl"}
        THEN [out |-> "error", th |-> th1,
              fds |-> FdsOf(th1) \ fail_close_set(th1, "lpthread"),
              s |-> s, hs |-> <<>>, ctx |-> "none", started |-> FALSE,
              nref |-> 0, nunref |-> 0]
        ELSE [out |-> CASE r.errno = "OK"     -> "handle"
                        [] r.errno = "EAGAIN" -> "again"
                        [] OTHER              -> "error",
              th |-> th2,
              fds |-> IF r.errno \in {"OK", "EAGAIN"} THEN FdsOf(th2)
                      ELSE FdsOf(th2) \ fail_close_set(th2, "lpthread"),
              s |-> r.s, hs |-> r.hs, ctx |-> r.ctx, started |-> r.started,
              nref |-> r.nref, nunref |-> r.nunref]

\* new_lua of pthread.c: one pipe, no queue arguments, the context is made
\* and released by new_lua itself
new_lua_v1(s, fail) ==
    LET th1 == IF fail = "pipe" THEN ThZero
               ELSE [ThZero EXCEPT !.pipefd = PipeFds]
    IN  IF fail = "none"
        THEN [out |-> "handle", th |-> th1, fds |-> FdsOf(th1), s |-> s,
              hs |-> <<>>, ctx |-> "live", started |-> TRUE,
              nref |-> 0, nunref |-> 0]
        ELSE IF fail = "create_eagain"
        THEN [out |-> "again", th |-> th1, fds |-> FdsOf(th1), s |-> s,
              hs |-> <<>>, ctx |-> "live", started |-> FALSE,
              nref |-> 0, nunref |-> 0]
        ELSE [out |-> "error", th |-> th1,
              fds |-> FdsOf(th1) \ fail_close_set(th1, "pthread"), s |-> s,
              hs |-> <<>>,
              ctx |-> IF fail \in {"pipe", "fcntl", "newstate"}
                      THEN "none" ELSE "closed",
              started |-> FALSE, nref |-> 0, nunref |-> 0]

\* the parent holds one handle to a fresh queue and has spawned nothing
SpawnInit ==
    /\ design \in {"lpthread", "pthread"}
    /\ TNone
    /\ QFixed
    /\ cre = CreIdle
    /\ XIdle
    /\ hnd = [p |-> "open", c |-> <<>>]
    /\ mutex = "none"
    /\ qop = [p |-> NoOp, c |-> NoOp]
    /\ spawn = [k |-> 0, fail |-> "none", out |-> "none"]

\* pthread.new(src, q, ...): the parent's handle is passed k times
NewLua ==
    /\ ppc = "none"
    /\ spawn.out = "none"
    /\ mutex = "none"
    /\ \E k \in 0..MaxChan, fail \in SpawnFails :
         /\ k > 0 => (hnd.p = "open" /\ design = "lpthread")
         /\ design = "pthread" => fail \notin {"cancelpipe", "ref"}
         /\ fail = "ref" => k > 0
         /\ LET r == IF design = "lpthread" THEN new_lua(Cur, k, fail)
                     ELSE new_lua_v1(Cur, fail)
            IN  /\ th' = r.th
                /\ fds' = r.fds
                /\ q' = r.s.q
                /\ node' = r.s.node
                /\ pipe' = r.s.pipe
                /\ deleted' = deleted \o r.s.cb
                /\ hnd' = [hnd EXCEPT !.c = r.hs]
                /\ child' = [child EXCEPT
                               !.pc = IF r.started THEN "start" ELSE "none",
                               !.ctx = r.ctx]
                /\ ppc' = IF r.out = "handle" THEN "idle" ELSE "none"
                /\ res' = Result("new", r.out, fail # "none")
                /\ spawn' = [k |-> k, fail |-> fail, out |-> r.out]
                /\ nref' = nref + r.nref
                /\ nunref' = nunref + r.nunref
    /\ UNCHANGED <<xvars, cre, op, pushed, popped, nalloc, mutex, qop, design, cpipe,
                   kpipe, joined, nstatus, nsentinel>>

\* q:close() in the parent
ParentCloseLua ==
    /\ hnd.p \in {"open", "closed"}
    /\ hnd.p = "open" => mutex = "none"
    /\ LET r == queue_close_lua(hnd.p, Cur)
       IN  /\ q' = r.s.q
           /\ node' = r.s.node
           /\ pipe' = r.s.pipe
           /\ deleted' = deleted \o r.s.cb
           /\ hnd' = [hnd EXCEPT !.p = r.h]
    /\ op' = [name |-> "close", rc |-> 0, data |-> NULL, size |-> 0,
              fault |-> FALSE]
    /\ nunref' = nunref + (IF hnd.p = "open" THEN 1 ELSE 0)
    /\ UNCHANGED <<xvars, cre, pushed, popped, nalloc, nref, mutex, qop, spawn, tvars>>

\* the parent's handle is collected
ParentGcQueue ==
    /\ hnd.p \in {"open", "closed"}
    /\ hnd.p = "open" => mutex = "none"
    /\ LET r == queue_gc_lua(hnd.p, Cur)
       IN  /\ q' = r.s.q
           /\ node' = r.s.node
           /\ pipe' = r.s.pipe
           /\ deleted' = deleted \o r.s.cb
           /\ hnd' = [hnd EXCEPT !.p = r.h]
    /\ op' = [name |-> "gc", rc |-> 0, data |-> NULL, size |-> 0,
              fault |-> FALSE]
    /\ nunref' = nunref + (IF hnd.p = "open" THEN 1 ELSE 0)
    /\ UNCHANGED <<xvars, cre, pushed, popped, nalloc, nref, mutex, qop, spawn, tvars>>

\* q:close() inside the program of the spawned thread
ChildCloseLua ==
    /\ ChildAlive
    /\ child.pc = "pcall"
    /\ \E i \in 1..Len(hnd.c) :
         /\ hnd.c[i] = "open"
         /\ mutex = "none"
         /\ LET r == queue_close_lua(hnd.c[i], Cur)
            IN  /\ q' = r.s.q
                /\ node' = r.s.node
                /\ pipe' = r.s.pipe
                /\ deleted' = deleted \o r.s.cb
                /\ hnd' = [hnd EXCEPT !.c[i] = r.h]
    /\ op' = [name |-> "close", rc |-> 0, data |-> NULL, size |-> 0,
              fault |-> FALSE]
    /\ nunref' = nunref + 1
    /\ UNCHANGED <<xvars, cre, pushed, popped, nalloc, nref, mutex, qop, spawn, tvars>>

SpawnNext ==
    \/ NewLua
    \/ ParentCloseLua
    \/ ParentGcQueue
    \/ ChildCloseLua
    \/ StatusLua
    \/ JoinLua
    \/ JoinNative
    \/ CancelLua
    \/ CancelNative
    \/ GcLua
    \/ GcJoin
    \/ GcClose
    \/ ChildStart
    \/ ChildCancelledInProgram
    \/ ChildReturn
    \/ ChildCleanupPop
    \/ ChildCleanupStatus
    \/ ChildCleanupWrite
    \/ ChildCancelledAtWrite
    \/ ChildLuaClose
    \/ ChildCancelledAtClose

SpawnSpec == SpawnInit /\ [][SpawnNext]_vars

\* ------------------------------------------------------------------------
\* The parent and the spawned thread on one queue: every call takes q->mutex
\* ------------------------------------------------------------------------
\* the most items one thread pushes
MaxPushEach == 2
\* max_items of the shared queue
ConcMaxItem == 2
\* sizeof(qdata_t) on LP64 (the tag, padding and the 16 bytes of the
\* union), the size push_lua passes for a value that is no string
QDataSize == 24

Callers == {"p", "c"}

\* mutant: the lock is taken although another thread holds it
pthread_mutex_lock_barge(m) == TRUE

\* pthread_mutex_lock(&q->mutex) returns once no thread holds the mutex
pthread_mutex_lock(m) == m = "none"

\* the n-th payload allocated by thread t
PayloadOf(t, n) == 10 * (IF t = "p" THEN 1 ELSE 2) + n

\* whether queue_push reaches read() or write() on a signalling pipe
push_syscall(qq, size) ==
    IF queue_full(qq, size) THEN QUEUE_STATUS_WRITABLE \in qq.status
    ELSE qq.totalitem = 0 /\ QUEUE_STATUS_READABLE \notin qq.status

\* whether queue_pop reaches read() or write() on a signalling pipe
pop_syscall(qq) ==
    /\ qq.head # NULL
    /\ \/ qq.totalitem = 1 /\ QUEUE_STATUS_READABLE \in qq.status
       \/ QUEUE_STATUS_WRITABLE \notin qq.status

\* the thread is running Lua code and its handle passes check_lpthread_queue
CallerReady(t) ==
    IF t = "p" THEN ppc = "idle" /\ hnd.p = "open"
    ELSE ChildAlive /\ child.pc = "pcall" /\ hnd.c[1] = "open"

\* a cancellation request is pending for the thread at a cancellation point
CancelPending(t) == t = "c" /\ child.cancel_req /\ ~child.canceling

\* right after pthread.new(src, q) returned a handle
ConcInit ==
    /\ TInit
    /\ design = "lpthread"
    /\ LET r == queue_ref(queue_new(ConcMaxItem, 0, NoEnv))
       IN  /\ q = r.q
           /\ node = r.node
           /\ pipe = r.pipe
    /\ op = [name |-> "ref", rc |-> 0, data |-> NULL, size |-> 0,
             fault |-> FALSE]
    /\ pushed = <<>>
    /\ popped = <<>>
    /\ deleted = <<>>
    /\ nalloc = 0
    /\ nref = 1
    /\ nunref = 0
    /\ hnd = [p |-> "open", c |-> <<"open">>]
    /\ cre = CreIdle
    /\ XIdle
    /\ mutex = "none"
    /\ qop = [p |-> NoOp, c |-> NoOp]
    /\ spawn = [k |-> 1, fail |-> "none", out |-> "handle"]

\* pthread_mutex_lock at the head of queue_push / queue_pop
QueueLock ==
    \E t \in Callers, kind \in {"push", "pop"} :
      /\ CallerReady(t)
      /\ qop[t].pc = "idle"
      /\ pthread_mutex_lock(mutex)
      /\ kind = "push" => qop[t].seq < MaxPushEach
      /\ mutex' = t
      /\ qop' = [qop EXCEPT
                   ![t].pc = "locked",
                   ![t].kind = kind,
                   ![t].rc = 0,
                   ![t].data = IF kind = "push"
                               THEN PayloadOf(t, qop[t].seq + 1) ELSE NULL]
      /\ UNCHANGED <<xvars, cre, qvars, tvars, hnd, spawn>>

\* the body of queue_push / queue_pop, run by the owner of the mutex
QueueBody ==
    \E t \in Callers :
      /\ qop[t].pc = "locked"
      /\ mutex = t
      /\ LET sys == IF qop[t].kind = "push" THEN push_syscall(q, QDataSize)
                    ELSE pop_syscall(q)
             r == IF qop[t].kind = "push"
                  THEN queue_push(Cur, qop[t].data, QDataSize, NoEnv, TRUE)
                  ELSE queue_pop(Cur, NoEnv, NoEnv)
             acc == qop[t].kind = "push" /\ r.rc = 1
             got == qop[t].kind = "pop" /\ r.rc = 0 /\ r.data # NULL
         IN  /\ ~(CancelPending(t) /\ sys)
             /\ q' = r.q
             /\ node' = r.node
             /\ pipe' = r.pipe
             /\ pushed' = IF acc THEN Append(pushed, qop[t].data) ELSE pushed
             /\ popped' = IF got THEN Append(popped, r.data) ELSE popped
             /\ nalloc' = IF acc THEN nalloc + 1 ELSE nalloc
             /\ qop' = [qop EXCEPT
                          ![t].pc = "unlock",
                          ![t].rc = r.rc,
                          ![t].data = IF got THEN r.data ELSE @,
                          ![t].seq = IF acc THEN @ + 1 ELSE @]
      /\ UNCHANGED <<xvars, cre, op, deleted, nref, nunref, tvars, hnd, mutex, spawn>>

\* pthread_mutex_unlock and the return of the call
QueueUnlock ==
    \E t \in Callers :
      /\ qop[t].pc = "unlock"
      /\ mutex = t
      /\ mutex' = "none"
      /\ qop' = [qop EXCEPT ![t] = [NoOp EXCEPT !.seq = qop[t].seq]]
      /\ UNCHANGED <<xvars, cre, qvars, tvars, hnd, spawn>>

\* read() / write() inside notify / unnotify is a cancellation point: with
\* a request pending the thread is cancelled there, inside the critical
\* section, and unwinds into on_cleanup; queue_push / queue_pop register no
\* handler that unlocks q->mutex
ChildCancelledInQueueOp ==
    /\ ChildAlive
    /\ child.pc = "pcall"
    /\ qop.c.pc = "locked"
    /\ mutex = "c"
    /\ CancelPending("c")
    /\ IF qop.c.kind = "push" THEN push_syscall(q, QDataSize)
       ELSE pop_syscall(q)
    /\ child' = [child EXCEPT !.pc = "cleanup", !.canceling = TRUE]
    /\ qop' = [qop EXCEPT !.c.pc = "cancelled"]
    /\ UNCHANGED <<xvars, cre, qvars, hnd, mutex, spawn, design, th, fds, cpipe, kpipe,
                   ppc, res, joined, nstatus, nsentinel>>

\* the steps of the spawned thread
ChildStep ==
    \/ ChildStart
    \/ ChildCancelledInProgram
    \/ ChildReturn
    \/ ChildCleanupPop
    \/ ChildCleanupStatus
    \/ ChildCleanupWrite
    \/ ChildCancelledAtWrite
    \/ ChildLuaClose
    \/ ChildCancelledAtClose
    \/ ChildCancelledInQueueOp

ConcNext ==
    \/ QueueLock
    \/ QueueBody
    \/ QueueUnlock
    \/ ChildCancelledInQueueOp
    \/ JoinLua
    \/ JoinNative
    \/ CancelLua
    \/ CancelNative
    \/ ChildStart
    \/ ChildCancelledInProgram
    \/ ChildReturn
    \/ ChildCleanupPop
    \/ ChildCleanupStatus
    \/ ChildCleanupWrite
    \/ ChildCancelledAtWrite
    \/ ChildLuaClose
    \/ ChildCancelledAtClose

ConcSpec == ConcInit /\ [][ConcNext]_vars

\* the spawned thread is scheduled as long as it can take a step
ConcLive == ConcSpec /\ WF_vars(ChildStep)

\* ------------------------------------------------------------------------
\* The start handshake of src/pthread.c: alloc_lua waits on the process-wide
\* CREATION_COND, cothread signals it
\* ------------------------------------------------------------------------
\* the most alloc_lua calls one caller makes
MaxAlloc == 2

\* what pthread_cond_timedwait returns
ETIMEDOUT == 110

\* outcomes of pthread_mutex_lock on the default mutex the caller already
\* holds (undefined by POSIX): the caller blocks for ever, or the call
\* returns EDEADLK and the caller goes on
RelockOutcomes == {"deadlock", "EDEADLK"}

\* the callers blocked inside pthread_cond_timedwait
Waiters == {p \in Spawners : cre.sp[p].pc = "waiting"}

\* the variables no step of the handshake changes
HFrame == <<qvars, tvars, hnd, mutex, qop, spawn, xvars>>

CondInit ==
    /\ design = "cothread"
    /\ TNone
    /\ QFixed
    /\ hnd = [p |-> "none", c |-> <<>>]
    /\ mutex = "none"
    /\ qop = [p |-> NoOp, c |-> NoOp]
    /\ spawn = [k |-> 0, fail |-> "none", out |-> "none"]
    /\ cre = CreIdle
    /\ XIdle

\* alloc_lua up to pthread_mutex_lock(&CREATION_MUTEX)
AllocLock ==
    \E p \in Spawners :
      /\ ~cre.killed
      /\ cre.sp[p].pc = "idle"
      /\ cre.sp[p].n < MaxAlloc
      /\ cre.mutex = 0
      /\ cre' = [cre EXCEPT
                   !.mutex = p,
                   !.sp[p] = [pc |-> "create", n |-> cre.sp[p].n + 1,
                              rc |-> 0, by |-> <<0, 0>>, out |-> "none"]]
      /\ UNCHANGED HFrame

\* pthread_create(&id, NULL, cothread, th)
AllocCreate ==
    \E p \in Spawners, ok \in BOOLEAN :
      /\ ~cre.killed
      /\ cre.sp[p].pc = "create"
      /\ cre' = IF ok
                THEN [cre EXCEPT !.pend = @ \cup {<<p, cre.sp[p].n>>},
                                 !.sp[p].pc = "wait"]
                ELSE [cre EXCEPT !.sp[p].pc = "fail"]
      /\ UNCHANGED HFrame

\* pthread_cond_timedwait: the mutex is released and the caller blocks
AllocWait ==
    \E p \in Spawners :
      /\ ~cre.killed
      /\ cre.sp[p].pc = "wait"
      /\ cre' = [cre EXCEPT !.mutex = 0, !.sp[p].pc = "waiting"]
      /\ UNCHANGED HFrame

\* cothread: th->join = 0; pthread_cond_signal(&CREATION_COND), made
\* without CREATION_MUTEX: it wakes one of the callers that are waiting, if
\* any is
CothreadSignal ==
    \E c \in cre.pend :
      /\ ~cre.killed
      /\ IF Waiters = {}
         THEN cre' = [cre EXCEPT !.pend = @ \ {c}, !.started = @ \cup {c}]
         ELSE \E w \in Waiters :
                cre' = [cre EXCEPT !.pend = @ \ {c},
                                   !.started = @ \cup {c},
                                   !.sp[w].pc = "woken",
                                   !.sp[w].rc = 0,
                                   !.sp[w].by = c]
      /\ UNCHANGED HFrame

\* pthread_cond_timedwait may return 0 without any signal
SpuriousWakeup ==
    \E w \in Waiters :
      /\ ~cre.killed
      /\ cre' = [cre EXCEPT !.sp[w].pc = "woken", !.sp[w].rc = 0]
      /\ UNCHANGED HFrame

\* the absolute time ts is reached
WaitTimeout ==
    \E w \in Waiters :
      /\ ~cre.killed
      /\ cre' = [cre EXCEPT !.sp[w].pc = "woken", !.sp[w].rc = ETIMEDOUT]
      /\ UNCHANGED HFrame

\* pthread_cond_timedwait returns with CREATION_MUTEX locked again
WaitReturn ==
    \E p \in Spawners :
      /\ ~cre.killed
      /\ cre.sp[p].pc = "woken"
      /\ cre.mutex = 0
      /\ cre' = [cre EXCEPT
                   !.mutex = p,
                   !.sp[p].pc = IF cre.sp[p].rc = 0 THEN "ok" ELSE "timedout"]
      /\ UNCHANGED HFrame

\* the wait returned 0: unlock, th->id = id, set the metatable, return th
AllocReturn ==
    \E p \in Spawners :
      /\ ~cre.killed
      /\ cre.sp[p].pc = "ok"
      /\ cre' = [cre EXCEPT !.mutex = 0,
                            !.sp[p].pc = "idle",
                            !.sp[p].out = "handle"]
      /\ UNCHANGED HFrame

\* the wait failed: pthread_kill(id, SIGKILL); SIGKILL ends the process
AllocKill ==
    \E p \in Spawners :
      /\ ~cre.killed
      /\ cre.sp[p].pc = "timedout"
      /\ cre' = [cre EXCEPT !.killed = TRUE]
      /\ UNCHANGED HFrame

\* pthread_create failed: pthread_mutex_lock(&CREATION_MUTEX) is called
\* again by its owner, then remove_co and return nil, errstr
AllocFail ==
    \E p \in Spawners, o \in RelockOutcomes :
      /\ ~cre.killed
      /\ cre.sp[p].pc = "fail"
      /\ cre' = IF o = "deadlock"
                THEN [cre EXCEPT !.sp[p].pc = "deadlock"]
                ELSE [cre EXCEPT !.sp[p].pc = "idle",
                                 !.sp[p].out = "error"]
      /\ UNCHANGED HFrame

CondNext ==
    \/ AllocLock
    \/ AllocCreate
    \/ AllocWait
    \/ CothreadSignal
    \/ SpuriousWakeup
    \/ WaitTimeout
    \/ WaitReturn
    \/ AllocReturn
    \/ AllocKill
    \/ AllocFail

CondSpec == CondInit /\ [][CondNext]_vars

\* ------------------------------------------------------------------------
\* The last queue_unref against one other call on the same queue, statement
\* by statement.  The parent made q and passed it to pthread.new: it and the
\* spawned thread hold one handle each.  pthread.new(src, q) takes its queue
\* arguments with luaL_checkudata only, so the parent can pass its handle
\* after q:close() as well; the thread such a call starts keeps its
\* reference for the whole run and is left out.
\* ------------------------------------------------------------------------
RaceKinds == {"ref", "unref", "push", "pop"}

\* lq->closed of the handle the thread uses
HandleOf(t) == IF t = "p" THEN hnd.p ELSE hnd.c[1]

\* q->closed = 1 in close_lua
MarkClosed(t) ==
    IF t = "p" THEN [hnd EXCEPT !.p = "closed"]
    ELSE [hnd EXCEPT !.c[1] = "closed"]

\* queue_unref from the lock to the unlock: with refcnt 1 all items are
\* deleted and the pipes are closed, q itself is still allocated
queue_unref_locked(s) == [queue_unref(s) EXCEPT !.q.freed = FALSE]

RaceInit == ConcInit

\* entry into queue_ref (pthread.new in the parent), queue_unref (q:close()),
\* queue_push or queue_pop; a call made on a freed queue is "stale"
RaceCall ==
    \E t \in Callers, kind \in RaceKinds :
      /\ IF t = "p" THEN ppc = "idle" ELSE ChildAlive /\ child.pc = "pcall"
      /\ qop[t].pc = "idle"
      /\ IF kind = "ref"
         THEN t = "p" /\ hnd.p \in {"open", "closed"} /\ nref < MaxRef
         ELSE HandleOf(t) = "open"
      /\ kind = "push" => qop[t].seq < MaxPushEach
      /\ qop' = [qop EXCEPT
                   ![t].pc = IF q.freed THEN "stale" ELSE "call",
                   ![t].kind = kind,
                   ![t].rc = 0,
                   ![t].data = IF kind = "push"
                               THEN PayloadOf(t, qop[t].seq + 1) ELSE NULL]
      /\ UNCHANGED <<xvars, cre, qvars, tvars, hnd, mutex, spawn>>

\* pthread_mutex_lock(&q->mutex): the mutex is a field of q; locking it
\* after free(q) is a use of freed memory ("uaf": the thread stops there,
\* whatever the build does next)
RaceLock ==
    \E t \in Callers :
      /\ qop[t].pc = "call"
      /\ IF q.freed
         THEN /\ qop' = [qop EXCEPT ![t].pc = "uaf"]
              /\ UNCHANGED mutex
         ELSE /\ pthread_mutex_lock(mutex)
              /\ mutex' = t
              /\ qop' = [qop EXCEPT ![t].pc = "locked"]
      /\ UNCHANGED <<xvars, cre, qvars, tvars, hnd, spawn>>

\* the statements between the lock and the unlock
RaceBody ==
    \E t \in Callers :
      /\ qop[t].pc = "locked"
      /\ mutex = t
      /\ IF q.freed
         THEN /\ qop' = [qop EXCEPT ![t].pc = "uaf"]
              /\ UNCHANGED <<q, node, pipe, pushed, popped, deleted, nalloc,
                             nref, nunref>>
         ELSE LET k == qop[t].kind
                  r == CASE k = "ref" -> queue_ref(Cur)
                         [] k = "unref" -> queue_unref_locked(Cur)
                         [] k = "push" -> queue_push(Cur, qop[t].data,
                                                     QDataSize, NoEnv, TRUE)
                         [] OTHER -> queue_pop(Cur, NoEnv, NoEnv)
                  acc == k = "push" /\ r.rc = 1
                  got == k = "pop" /\ r.rc = 0 /\ r.data # NULL
                  last == k = "unref" /\ q.refcnt = 1
              IN  /\ q' = r.q
                  /\ node' = r.node
                  /\ pipe' = r.pipe
                  /\ deleted' = deleted \o r.cb
                  /\ pushed' = IF acc THEN Append(pushed, qop[t].data)
                               ELSE pushed
                  /\ popped' = IF got THEN Append(popped, r.data) ELSE popped
                  /\ nalloc' = IF acc THEN nalloc + 1 ELSE nalloc
                  /\ nref' = IF k = "ref" THEN nref + 1 ELSE nref
                  /\ nunref' = IF k = "unref" THEN nunref + 1 ELSE nunref
                  /\ qop' = [qop EXCEPT
                               ![t].pc = IF last THEN "unlock_last"
                                         ELSE "unlock",
                               ![t].rc = r.rc,
                               ![t].data = IF got THEN r.data ELSE @,
                               ![t].seq = IF acc THEN @ + 1 ELSE @]
      /\ UNCHANGED <<xvars, cre, op, tvars, hnd, mutex, spawn>>

\* pthread_mutex_unlock(&q->mutex); every call but the last unref returns
RaceUnlock ==
    \E t \in Callers :
      /\ qop[t].pc \in {"unlock", "unlock_last"}
      /\ mutex = t
      /\ IF q.freed
         THEN /\ qop' = [qop EXCEPT ![t].pc = "uaf"]
              /\ UNCHANGED <<mutex, hnd>>
         ELSE /\ mutex' = "none"
              /\ qop' = [qop EXCEPT
                           ![t] = IF qop[t].pc = "unlock_last"
                                  THEN [@ EXCEPT !.pc = "destroy"]
                                  ELSE [NoOp EXCEPT !.seq = qop[t].seq,
                                                    !.kind = qop[t].kind]]
              /\ hnd' = IF qop[t].kind = "unref" /\ qop[t].pc = "unlock"
                        THEN MarkClosed(t) ELSE hnd
      /\ UNCHANGED <<xvars, cre, qvars, tvars, spawn>>

\* the last unref: pthread_mutex_destroy(&q->mutex); free(q); return
RaceDestroy ==
    \E t \in Callers :
      /\ qop[t].pc = "destroy"
      /\ IF q.freed
         THEN /\ qop' = [qop EXCEPT ![t].pc = "uaf"]
              /\ UNCHANGED <<q, hnd>>
         ELSE /\ q' = [q EXCEPT !.freed = TRUE]
              /\ qop' = [qop EXCEPT ![t] = [NoOp EXCEPT !.seq = qop[t].seq,
                                                        !.kind = "unref"]]
              /\ hnd' = MarkClosed(t)
      /\ UNCHANGED <<xvars, cre, node, pipe, op, pushed, popped, deleted, nalloc,
                     nref, nunref, tvars, mutex, spawn>>

RaceNext ==
    \/ ChildStart
    \/ RaceCall
    \/ RaceLock
    \/ RaceBody
    \/ RaceUnlock
    \/ RaceDestroy

RaceSpec == RaceInit /\ [][RaceNext]_vars

\* ------------------------------------------------------------------------
\* The pipe I/O loops on their own: notify and unnotify of queue.c, the read
\* of join_lua and the write of cancel_lua of lpthread.c, each run against
\* a sequence of errno outcomes, one per attempt
\* ------------------------------------------------------------------------
\* the number of attempts whose outcome the environment fixes
MaxTries == 3

IoLoops == {"notify", "unnotify", "join_lua", "cancel_lua"}

\* the RETRY loop of cancel_lua from attempt i on: the write is repeated
\* for as long as it fails with EINTR; "retrying" when all the outcomes
\* given are used up and the loop goes on
RECURSIVE cancel_lua_write(_, _, _)
cancel_lua_write(n, envs, i) ==
    LET w == sys_write(n, envs[i])
    IN  IF w.ret = 1 THEN [out |-> "true", n |-> w.n, tries |-> i]
        ELSE IF w.errno = "EINTR"
        THEN IF i < Len(envs) THEN cancel_lua_write(n, envs, i + 1)
             ELSE [out |-> "retrying", n |-> n, tries |-> i]
        ELSE [out |-> "error", n |-> n, tries |-> i]

\* the number of read() calls join_lua of lpthread.c makes
join_lua_tries(n, env) ==
    LET r1 == sys_readn(n, env[1], JoinBufSize)
    IN  IF r1.ret = -1 /\ r1.errno = "EINTR" THEN 2 ELSE 1

RetryInit ==
    /\ QFixed
    /\ TIdle
    /\ HIdle
    /\ lq = LqNone
    /\ wk = WkNone
    /\ mb = MbNone
    /\ \E who \in IoLoops, envs \in [1..MaxTries -> Errnos], n \in 0..1 :
         io = [who |-> who, envs |-> envs, n |-> n, tries |-> 0,
               out |-> "none"]

\* notify(fd)
IoNotify ==
    /\ io.who = "notify" /\ io.out = "none"
    /\ LET r == notify(io.n, io.envs)
       IN  io' = [io EXCEPT !.n = r.n, !.tries = r.tries,
                            !.out = IF r.rc = 0 THEN "ok" ELSE "error"]
    /\ UNCHANGED <<qvars, tvars, hnd, mutex, qop, spawn, cre, lq, wk, mb>>

\* unnotify(fd)
IoUnnotify ==
    /\ io.who = "unnotify" /\ io.out = "none"
    /\ LET r == unnotify(io.n, io.envs)
       IN  io' = [io EXCEPT !.n = r.n, !.tries = r.tries,
                            !.out = IF r.rc = 0 THEN "ok" ELSE "error"]
    /\ UNCHANGED <<qvars, tvars, hnd, mutex, qop, spawn, cre, lq, wk, mb>>

\* join_lua of lpthread.c from RETRY to the end of the switch, the thread
\* having stored its final status before it wrote the byte
IoJoin ==
    /\ io.who = "join_lua" /\ io.out = "none"
    /\ LET r == join_lua_read([status |-> THREAD_TERMINATED], io.n, io.envs)
       IN  io' = [io EXCEPT !.n = r.n,
                            !.tries = join_lua_tries(io.n, io.envs),
                            !.out = r.out]
    /\ UNCHANGED <<qvars, tvars, hnd, mutex, qop, spawn, cre, lq, wk, mb>>

\* cancel_lua with notify set, from RETRY on
IoCancel ==
    /\ io.who = "cancel_lua" /\ io.out = "none"
    /\ LET r == cancel_lua_write(io.n, io.envs, 1)
       IN  io' = [io EXCEPT !.n = r.n, !.tries = r.tries, !.out = r.out]
    /\ UNCHANGED <<qvars, tvars, hnd, mutex, qop, spawn, cre, lq, wk, mb>>

RetryNext ==
    \/ IoNotify
    \/ IoUnnotify
    \/ IoJoin
    \/ IoCancel

RetrySpec == RetryInit /\ [][RetryNext]_vars

\* ------------------------------------------------------------------------
\* Lua values through the queue: push_lua builds a qdata_t on the heap and
\* hands its address to queue_push, pop_lua turns the qdata_t that queue_pop
\* returns into a Lua value again (src/src/lqueue.c)
\* ------------------------------------------------------------------------
\* the most values one run pushes
MaxVal == 2
\* the longest string pushed
MaxStr == 2

QDATA_TRUE == 0
QDATA_FALSE == 1
QDATA_LIGHTUSERDATA == 2
QDATA_NUMBER == 3
QDATA_INTEGER == 4
QDATA_STRING == 5

\* the Lua the module is built for: "lua53" has an integer subtype of
\* number, "lua51" has floats only
Builds == {"lua51", "lua53"}

\* bytes of the strings pushed; 0 is an embedded NUL
Bytes == {0, 65}

RECURSIVE SeqsUpTo(_, _)
SeqsUpTo(S, n) ==
    IF n = 0 THEN {<<>>}
    ELSE LET R == SeqsUpTo(S, n - 1)
         IN  R \cup {Append(r, b) : r \in {x \in R : Len(x) = n - 1}, b \in S}

\* a float is held as its number of halves h2 (h2 = 3 is 1.5)
LuaFloat(h2) == [t |-> "number", sub |-> "float", v |-> h2]
LuaInt(i) == [t |-> "number", sub |-> "integer", v |-> i]

\* the values of the six supported kinds a program pushes
LuaValues(build) ==
    {[t |-> "boolean", v |-> b] : b \in BOOLEAN}
    \cup {[t |-> "lightuserdata", v |-> 4096]}
    \cup {LuaFloat(h2) : h2 \in {-3, 2}}
    \cup (IF build = "lua53" THEN {LuaInt(i) : i \in {-1, 1}} ELSE {})
    \cup {[t |-> "string", v |-> s] : s \in SeqsUpTo(Bytes, MaxStr)}

\* lauxh_isinteger: the subtype where Lua has one, else whether the float
\* has an integral value
lauxh_isinteger(build, v) ==
    IF build = "lua53" THEN v.sub = "integer" ELSE v.v % 2 = 0

\* lua_tointeger of a number that lauxh_isinteger accepted
lua_tointeger(v) == IF v.sub = "integer" THEN v.v ELSE v.v \div 2

\* lua_pushinteger: Lua 5.1 stores the integer as a float
lua_pushinteger(build, i) ==
    IF build = "lua53" THEN LuaInt(i) ELSE LuaFloat(2 * i)

\* qdata_t data = {0}
QDataZero == [type |-> QDATA_TRUE, ival |-> 0, nval |-> 0, p |-> 0,
              len |-> 0, bytes |-> <<>>]

\* mutant: every number is stored as QDATA_NUMBER from its integer value
push_lua_encode_as_number(build, v) ==
    CASE v.t = "boolean" ->
           [QDataZero EXCEPT !.type = IF v.v THEN QDATA_TRUE ELSE QDATA_FALSE]
      [] v.t = "number" ->
           [QDataZero EXCEPT !.type = QDATA_NUMBER,
                             !.nval = 2 * lua_tointeger(v)]
      [] v.t = "string" ->
           [QDataZero EXCEPT !.type = QDATA_STRING, !.len = Len(v.v),
                             !.bytes = v.v]
      [] OTHER ->
           [QDataZero EXCEPT !.type = QDATA_LIGHTUSERDATA, !.p = v.v]

\* the switch of push_lua and the copy of the string behind the item
push_lua_encode(build, v) ==
    CASE v.t = "boolean" ->
           [QDataZero EXCEPT !.type = IF v.v THEN QDATA_TRUE ELSE QDATA_FALSE]
      [] v.t = "number" ->
           IF lauxh_isinteger(build, v)
           THEN [QDataZero EXCEPT !.type = QDATA_INTEGER,
                                  !.ival = lua_tointeger(v)]
           ELSE [QDataZero EXCEPT !.type = QDATA_NUMBER, !.nval = v.v]
      [] v.t = "string" ->
           [QDataZero EXCEPT !.type = QDATA_STRING, !.len = Len(v.v),
                             !.bytes = SubSeq(v.v, 1, Len(v.v))]
      [] OTHER ->
           [QDataZero EXCEPT !.type = QDATA_LIGHTUSERDATA, !.p = v.v]

\* the size push_lua passes to queue_push
push_lua_size(d) == QDataSize + (IF d.type = QDATA_STRING THEN d.len ELSE 0)

\* the switch of pop_lua
pop_lua_decode(build, d) ==
    CASE d.type = QDATA_TRUE -> [t |-> "boolean", v |-> TRUE]
      [] d.type = QDATA_FALSE -> [t |-> "boolean", v |-> FALSE]
      [] d.type = QDATA_NUMBER -> LuaFloat(d.nval)
      [] d.type = QDATA_INTEGER -> lua_pushinteger(build, d.ival)
      [] d.type = QDATA_STRING ->
           [t |-> "string", v |-> SubSeq(d.bytes, 1, d.len)]
      [] d.type = QDATA_LIGHTUSERDATA -> [t |-> "lightuserdata", v |-> d.p]
      [] OTHER -> [t |-> "nil", v |-> 0]

ValInit ==
    /\ \E maxitem \in {0, 1} :
         LET r == queue_new(maxitem, 0, NoEnv)
         IN  /\ q = r.q
             /\ node = r.node
             /\ pipe = r.pipe
    /\ op = [name |-> "new", rc |-> 0, data |-> NULL, size |-> 0,
             fault |-> FALSE]
    /\ pushed = <<>>
    /\ popped = <<>>
    /\ deleted = <<>>
    /\ nalloc = 0
    /\ nref = 0
    /\ nunref = 0
    /\ TIdle
    /\ HIdle
    /\ io = IoNone
    /\ wk = WkNone
    /\ mb = MbNone
    /\ \E build \in Builds :
         lq = [build |-> build, heap |-> <<>>, vin |-> <<>>, vout |-> <<>>]

\* q:push(v): the item is malloc'ed, filled and pushed; it is freed again
\* unless queue_push accepted it
PushLua ==
    /\ nalloc < MaxVal
    /\ \E v \in LuaValues(lq.build) :
         LET data == nalloc + 1
             d == push_lua_encode(lq.build, v)
             r == queue_push(Cur, data, push_lua_size(d), NoEnv, TRUE)
             acc == push_lua_result(r.rc) = "Accepted"
         IN  /\ q' = r.q
             /\ node' = r.node
             /\ pipe' = r.pipe
             /\ op' = [name |-> "push", rc |-> r.rc, data |-> data,
                       size |-> push_lua_size(d), fault |-> FALSE]
             /\ pushed' = IF acc THEN Append(pushed, data) ELSE pushed
             /\ nalloc' = IF acc THEN nalloc + 1 ELSE nalloc
             /\ lq' = IF acc
                      THEN [lq EXCEPT !.heap = (data :> d) @@ @,
                                      !.vin = Append(@, v)]
                      ELSE lq
    /\ UNCHANGED <<popped, deleted, nref, nunref, tvars, hnd, mutex, qop,
                   spawn, cre, io, wk, mb>>

\* q:pop(): the item queue_pop returns is turned into a value and freed
PopLua ==
    /\ LET r == queue_pop(Cur, NoEnv, NoEnv)
           got == pop_lua_result(r.rc, r.data) = "Item"
       IN  /\ q' = r.q
           /\ node' = r.node
           /\ pipe' = r.pipe
           /\ op' = [name |-> "pop", rc |-> r.rc, data |-> r.data,
                     size |-> 0, fault |-> FALSE]
           /\ popped' = IF got THEN Append(popped, r.data) ELSE popped
           /\ lq' = IF got
                    THEN [lq EXCEPT
                            !.vout = Append(@, pop_lua_decode(lq.build,
                                                              lq.heap[r.data])),
                            !.heap = [a \in DOMAIN @ \ {r.data} |-> @[a]]]
                    ELSE lq
    /\ UNCHANGED <<pushed, deleted, nalloc, nref, nunref, tvars, hnd, mutex,
                   qop, spawn, cre, io, wk, mb>>

ValNext ==
    \/ PushLua
    \/ PopLua

ValSpec == ValInit /\ [][ValNext]_vars

\* ------------------------------------------------------------------------
\* The worker thread of src/pthread.c: call_lua puts a task on the task
\* stack and signals th->cond, cothread waits on th->cond and runs the tasks
\* ------------------------------------------------------------------------
\* the most tasks one run submits
MaxCall == 3

\* alloc_lua returned the handle; the worker is past its start signal and
\* has not yet locked th->mutex
WorkerInit ==
    /\ QFixed
    /\ TIdle
    /\ HIdle
    /\ io = IoNone
    /\ lq = LqNone
    /\ mb = MbNone
    /\ wk = [pc |-> "start", tasks |-> <<>>, cur |-> 0, done |-> <<>>,
             n |-> 0, join |-> 0, call |-> "idle", gc |-> "none"]

\* pthread_cond_signal(&th->cond): wakes the worker if it is blocked in
\* pthread_cond_wait, else does nothing
cond_signal(w) == IF w.pc = "waiting" THEN [w EXCEPT !.pc = "woken"] ELSE w

\* call_lua: lpth_task_lock(th)
CallLock ==
    /\ wk.gc = "none"
    /\ wk.call = "idle"
    /\ wk.n < MaxCall
    /\ wk' = [wk EXCEPT !.call = "locked"]
    /\ UNCHANGED <<qvars, tvars, hnd, mutex, qop, spawn, cre, io, lq, mb>>

\* call_lua: lua_newthread(th->task.L) and lua_xmove put the task on top of
\* the task stack
CallPush ==
    /\ wk.call = "locked"
    /\ wk' = [wk EXCEPT !.tasks = Append(@, wk.n + 1), !.n = @ + 1,
                        !.call = "pushed"]
    /\ UNCHANGED <<qvars, tvars, hnd, mutex, qop, spawn, cre, io, lq, mb>>

\* call_lua: pthread_cond_signal(&th->cond), with the task mutex held and
\* th->mutex not
CallSignal ==
    /\ wk.call = "pushed"
    /\ wk' = [cond_signal(wk) EXCEPT !.call = "signalled"]
    /\ UNCHANGED <<qvars, tvars, hnd, mutex, qop, spawn, cre, io, lq, mb>>

\* call_lua: lpth_task_unlock(th)
CallUnlock ==
    /\ wk.call = "signalled"
    /\ wk' = [wk EXCEPT !.call = "idle"]
    /\ UNCHANGED <<qvars, tvars, hnd, mutex, qop, spawn, cre, io, lq, mb>>

\* cothread: lpth_lock(th), or the jump to WAIT_COTHREAD, and the entry into
\* pthread_cond_wait, which releases th->mutex
WorkerWait ==
    /\ wk.pc \in {"start", "towait"}
    /\ wk' = [wk EXCEPT !.pc = "waiting"]
    /\ UNCHANGED <<qvars, tvars, hnd, mutex, qop, spawn, cre, io, lq, mb>>

\* pthread_cond_wait returns with th->mutex locked (gc_lua holds it only
\* while it stores join); if (!th->join)
WorkerWake ==
    /\ wk.pc = "woken"
    /\ wk.gc # "locked"
    /\ wk' = [wk EXCEPT !.pc = IF wk.join = 0 THEN "check" ELSE "exit"]
    /\ UNCHANGED <<qvars, tvars, hnd, mutex, qop, spawn, cre, io, lq, mb>>

\* CHECK_TASK: under the task mutex the first task is taken off the stack;
\* without a task the worker goes back to WAIT_COTHREAD unless join is set
WorkerCheck ==
    /\ wk.pc = "check"
    /\ wk.call = "idle"
    /\ wk' = IF wk.tasks # <<>>
             THEN [wk EXCEPT !.cur = Head(wk.tasks), !.tasks = Tail(@),
                             !.pc = "run"]
             ELSE [wk EXCEPT !.pc = IF wk.join = 0 THEN "towait" ELSE "exit"]
    /\ UNCHANGED <<qvars, tvars, hnd, mutex, qop, spawn, cre, io, lq, mb>>

\* lua_resume(co, ...), then CHECK_TASK again unless join is set
WorkerRun ==
    /\ wk.pc = "run"
    /\ wk' = [wk EXCEPT !.done = Append(@, wk.cur), !.cur = 0,
                        !.pc = IF wk.join = 0 THEN "check" ELSE "exit"]
    /\ UNCHANGED <<qvars, tvars, hnd, mutex, qop, spawn, cre, io, lq, mb>>

\* gc_lua: lpth_lock(th), which the worker holds except inside
\* pthread_cond_wait; th->join = 1
GcLock ==
    /\ wk.gc = "none"
    /\ wk.pc = "waiting"
    /\ wk' = [wk EXCEPT !.gc = "locked", !.join = 1]
    /\ UNCHANGED <<qvars, tvars, hnd, mutex, qop, spawn, cre, io, lq, mb>>

\* gc_lua: lpth_unlock(th); pthread_cond_signal(&th->cond); pthread_join
GcSignal ==
    /\ wk.gc = "locked"
    /\ wk' = [cond_signal(wk) EXCEPT !.gc = "join"]
    /\ UNCHANGED <<qvars, tvars, hnd, mutex, qop, spawn, cre, io, lq, mb>>

\* the steps of the worker thread
WorkerStep ==
    \/ WorkerWait
    \/ WorkerWake
    \/ WorkerCheck
    \/ WorkerRun

WorkerNext ==
    \/ CallLock
    \/ CallPush
    \/ CallSignal
    \/ CallUnlock
    \/ WorkerWait
    \/ WorkerWake
    \/ WorkerCheck
    \/ WorkerRun
    \/ GcLock
    \/ GcSignal

WorkerSpec == WorkerInit /\ [][WorkerNext]_vars

\* the rest of a call_lua or gc_lua that has begun
CallerStep ==
    \/ CallPush
    \/ CallSignal
    \/ CallUnlock
    \/ GcSignal

\* the worker is scheduled as long as it can take a step, and a call that
\* has begun returns; nothing obliges the program to call again
WorkerLive == WorkerSpec /\ WF_vars(WorkerStep) /\ WF_vars(CallerStep)

\* ------------------------------------------------------------------------
\* The mailboxes of src/src/mbox.c: two peers, each with a mutex and an
\* inbox queue of elements linked by prev and next
\* ------------------------------------------------------------------------
\* the most elements one run allocates with que_enq
MaxSend == 3

Boxes == {"m1", "m2"}

\* data->peer of a mailbox made with lpt_mbox_alloc(L, outbox)
Peer(m) == IF m = "m1" THEN "m2" ELSE "m1"

\* the argument lists of send: the kinds of the values after the mailbox
MboxArgs == {<<"number">>, <<"function">>, <<"nil", "string">>,
             <<"function", "thread">>}

\* copy2mbox with allow_nil = 1: whether the value is pushed on the element
copy2mbox(kind) ==
    kind \in {"boolean", "lightuserdata", "number", "string", "table", "nil"}

\* lua_gettop(elm->co) after the loop over the arguments
CopiedTop(args) == Cardinality({i \in 1..Len(args) : copy2mbox(args[i])})

\* que_alloc: len 0, head and tail NULL (0)
que_alloc == [len |-> 0, head |-> 0, tail |-> 0]

\* both mailboxes made, no send in progress
MbInit == [made |-> TRUE,
           mutex |-> [m \in Boxes |-> "none"],
           snd |-> [m \in Boxes |-> [pc |-> "idle", args |-> <<>>, ok |-> 0]],
           que |-> [m \in Boxes |-> que_alloc],
           elm |-> <<>>,
           sent |-> [m \in Boxes |-> <<>>],
           got |-> [m \in Boxes |-> <<>>],
           crash |-> FALSE]

MboxInit ==
    /\ QFixed
    /\ TIdle
    /\ HIdle
    /\ io = IoNone
    /\ lq = LqNone
    /\ wk = WkNone
    /\ mb = MbInit

\* que_enq on the inbox of mailbox m: a new element, referenced, is linked
\* behind the tail
que_enq(w, m) ==
    LET que == w.que[m]
        id  == Len(w.elm) + 1
        new == [prev |-> que.tail, next |-> 0, top |-> 0, live |-> TRUE]
        linked == IF que.tail # 0
                  THEN [w.elm EXCEPT ![que.tail].next = id]
                  ELSE w.elm
    IN  [w EXCEPT !.elm = Append(linked, new),
                  !.que[m] = [len  |-> que.len + 1,
                              head |-> IF que.tail # 0 THEN que.head ELSE id,
                              tail |-> id]]

\* que_pop: the tail is taken off and its references are released; the next
\* pointer of the element before it is left as it is
que_pop(w, m) ==
    LET que == w.que[m]
        e   == que.tail
    IN  IF que.len = 0 THEN w
        ELSE [w EXCEPT !.que[m] = IF que.len - 1 # 0
                                  THEN [que EXCEPT !.len = @ - 1,
                                                   !.tail = w.elm[e].prev]
                                  ELSE [len |-> 0, head |-> 0, tail |-> 0],
                       !.elm[e].live = FALSE]

\* what a read of elm->next gives: the field of a referenced element, any
\* value once the references were released and the userdata may be collected
NextRead(w, e) == IF w.elm[e].live THEN {w.elm[e].next} ELSE 0..Len(w.elm)

\* que_deq when len # 0 and head # NULL, nx being what elm->next reads: the
\* head is taken off, its links are cleared and its references are released
que_deq(w, m, nx) ==
    LET que == w.que[m]
        e   == que.head
        e1  == [w.elm EXCEPT ![e].prev = 0, ![e].next = 0, ![e].live = FALSE]
        e2  == IF nx # 0 /\ nx # e THEN [e1 EXCEPT ![nx].prev = 0] ELSE e1
    IN  [w EXCEPT !.que[m] = [len  |-> que.len - 1,
                              head |-> nx,
                              tail |-> IF nx # 0 THEN que.tail ELSE 0],
                  !.elm = e2]

\* send_lua: pthread_mutex_lock(&mbox->data->mutex); narg > 1 and the peer
\* is there
SendLockOwn(m) ==
    /\ ~mb.crash
    /\ mb.snd[m].pc = "idle"
    /\ mb.mutex[m] = "none"
    /\ Len(mb.elm) + Cardinality({b \in Boxes : mb.snd[b].pc \in {"own", "peer"}})
         < MaxSend
    /\ \E args \in MboxArgs :
         mb' = [mb EXCEPT !.mutex[m] = m,
                          !.snd[m] = [pc |-> "own", args |-> args, ok |-> 0]]
    /\ UNCHANGED <<qvars, tvars, hnd, mutex, qop, spawn, cre, io, lq, wk>>

\* send_lua: pthread_mutex_lock(&outbox->mutex)
SendLockPeer(m) ==
    /\ mb.snd[m].pc = "own"
    /\ mb.mutex[Peer(m)] = "none"
    /\ mb' = [mb EXCEPT !.mutex[Peer(m)] = m, !.snd[m].pc = "peer"]
    /\ UNCHANGED <<qvars, tvars, hnd, mutex, qop, spawn, cre, io, lq, wk>>

\* send_lua: que_enq on the peer's inbox, the arguments are copied to the
\* element, and que_pop takes it back when nothing was copied
SendEnq(m) ==
    /\ mb.snd[m].pc = "peer"
    /\ LET w1 == que_enq(mb, Peer(m))
           id == Len(w1.elm)
           ok == CopiedTop(mb.snd[m].args)
           w2 == [w1 EXCEPT !.elm[id].top = ok]
           w3 == IF ok = 0 THEN que_pop(w2, Peer(m))
                 ELSE [w2 EXCEPT !.sent[Peer(m)] = Append(@, id)]
       IN  mb' = [w3 EXCEPT !.snd[m].pc = "copied", !.snd[m].ok = ok]
    /\ UNCHANGED <<qvars, tvars, hnd, mutex, qop, spawn, cre, io, lq, wk>>

\* send_lua: pthread_mutex_unlock(&outbox->mutex)
SendUnlockPeer(m) ==
    /\ mb.snd[m].pc = "copied"
    /\ mb' = [mb EXCEPT !.mutex[Peer(m)] = "none", !.snd[m].pc = "pushed"]
    /\ UNCHANGED <<qvars, tvars, hnd, mutex, qop, spawn, cre, io, lq, wk>>

\* send_lua: lua_pushboolean(L, ok); pthread_mutex_unlock of the own mutex
SendUnlockOwn(m) ==
    /\ mb.snd[m].pc = "pushed"
    /\ mb' = [mb EXCEPT !.mutex[m] = "none", !.snd[m].pc = "idle"]
    /\ UNCHANGED <<qvars, tvars, hnd, mutex, qop, spawn, cre, io, lq, wk>>

\* recv_lua on an inbox with len # 0 (with len = 0 nothing changes): under
\* the own mutex que_deq takes the head and its values are moved to the
\* caller; que_deq reads through a NULL head when head = NULL
RecvLua(m) ==
    /\ ~mb.crash
    /\ mb.snd[m].pc = "idle"
    /\ mb.mutex[m] = "none"
    /\ mb.que[m].len # 0
    /\ IF mb.que[m].head = 0
       THEN mb' = [mb EXCEPT !.crash = TRUE]
       ELSE \E nx \in NextRead(mb, mb.que[m].head) :
              mb' = [que_deq(mb, m, nx) EXCEPT
                       !.got[m] = Append(@, mb.que[m].head)]
    /\ UNCHANGED <<qvars, tvars, hnd, mutex, qop, spawn, cre, io, lq, wk>>

MboxNext ==
    \/ \E m \in Boxes : SendLockOwn(m)
    \/ \E m \in Boxes : SendLockPeer(m)
    \/ \E m \in Boxes : SendEnq(m)
    \/ \E m \in Boxes : SendUnlockPeer(m)
    \/ \E m \in Boxes : SendUnlockOwn(m)
    \/ \E m \in Boxes : RecvLua(m)

MboxSpec == MboxInit /\ [][MboxNext]_vars

\* ------------------------------------------------------------------------
\* Properties of the thread lifecycle (checked under ThreadSpec)
\* ------------------------------------------------------------------------
Terminal == {THREAD_TERMINATED, THREAD_FAILED, THREAD_CANCELLED}

StatusName(st) ==
    CASE st = THREAD_RUNNING    -> "running"
      [] st = THREAD_TERMINATED -> "terminated"
      [] st = THREAD_FAILED     -> "failed"
      [] st = THREAD_CANCELLED  -> "cancelled"

\* a step of the parent: a handle method ran
ParentStep == res'.tick # res.tick

\* C7: the stored status starts as Running and is stored to exactly once, by
\* the status switch of the child's on_cleanup, which takes it from Running
\* to one of Terminated, Failed, Cancelled; no step of the parent changes it
\* and it never returns to Running.
C7_StatusOnce ==
    /\ [](/\ th.status \in Terminal \cup {THREAD_RUNNING}
          /\ nstatus <= 1
          /\ th.status = THREAD_RUNNING <=> nstatus = 0
          /\ child.pc \in {"write", "close", "exited"} <=> nstatus = 1)
    /\ [][th'.status # th.status =>
            /\ th.status = THREAD_RUNNING
            /\ th'.status \in Terminal
            /\ child.pc = "cleanup" /\ child'.pc = "write"
            /\ ~ParentStep
            /\ ppc' = ppc]_vars

\* the thread failed, exited and was joined: the status was stored once
C7_Witness ==
    /\ child.pc = "exited"
    /\ th.status = THREAD_FAILED
    /\ nstatus = 1
    /\ joined = 1
    /\ res.name = "cancel"

\* C8: a spawned thread that has exited wrote exactly one byte to its
\* completion pipe (stated for handles that have not been destroyed).
C8_OneSentinel ==
    /\ nsentinel <= 1
    /\ (child.pc = "exited" /\ res.name # "gc") => nsentinel = 1

\* C9: status() is "running" while the read side of the completion pipe is
\* open, also after the thread has exited; the read side is closed only by a
\* join that succeeded, and from then on status() is the name of the stored
\* terminal status and does not change.
C9_StatusView ==
    /\ [](/\ th.pipefd[1] # -1 => status_lua(th) = "running"
          /\ th.pipefd[1] = -1 =>
               /\ joined >= 1
               /\ child.pc = "exited"
               /\ th.status \in Terminal
               /\ status_lua(th) = StatusName(th.status)
          /\ res.name = "status" =>
               \/ res.val = "running"
               \/ th.pipefd[1] = -1 /\ res.val = StatusName(th.status))
    /\ [][th.pipefd[1] = -1 => status_lua(th') = status_lua(th)]_vars

\* status() after a successful join reports the stored terminal status
C9_Witness ==
    /\ th.pipefd[1] = -1
    /\ joined = 1
    /\ res.name = "status"
    /\ res.val = "cancelled"

C11_JoinOnce ==
    /\ [](/\ th.pipefd[1] = -1 => joined >= 1
          /\ ppc \in {"idle", "join_native", "cancel_native"} => joined <= 1)
    /\ [][/\ (/\ ppc = "idle" /\ th.pipefd[1] # -1 /\ cpipe = 1
              /\ ParentStep /\ res'.name = "join" /\ ~res'.fault)
             => (ppc' = "join_native" /\ cpipe' = 0)
          /\ (ppc = "join_native" /\ ppc' # ppc)
             => (/\ joined = 0 /\ joined' = 1
                 /\ th.pipefd[1] \in fds
                 /\ fds' = fds \ {th.pipefd[1]}
                 /\ th'.pipefd[1] = -1
                 /\ res'.val = "true")
          /\ (/\ ppc = "idle" /\ th.pipefd[1] = -1
              /\ ParentStep /\ res'.name = "join")
             => (/\ res'.val = "true" /\ ~res'.fault
                 /\ th' = th
                 /\ fds' = fds
                 /\ cpipe' = cpipe
                 /\ joined' = joined
                 /\ child' = child
                 /\ ppc' = "idle")]_vars

\* join() was called again on a joined handle and returned true
C11_Witness ==
    /\ res.name = "join"
    /\ res.val = "true"
    /\ th.pipefd[1] = -1
    /\ joined = 1
    /\ th.pipefd[1] \notin fds

C13_CoopCancelled ==
    (kpipe = 1 /\ ~child.cancel_req /\ th.pipefd[1] = -1)
        => status_lua(th) = "cancelled"

OpenHandles ==
    (IF hnd.p = "open" THEN 1 ELSE 0) + OpenIn(hnd.c, Len(hnd.c))

\* C15: after a spawn that met a failure, the call has reported a failure,
\* no descriptor it opened is still open and no execution context it made
\* is left unreleased.
C15_SpawnFailureReleases ==
    spawn.fail # "none" =>
        /\ spawn.out \in {"again", "error"}
        /\ fds = {}
        /\ child.ctx # "live"

\* C16: when loading the program fails, spawn returns the error to its
\* caller, no thread is created, no handle is returned, and no byte is ever
\* written to the completion pipe.
C16_LoadFailure ==
    spawn.fail = "load" =>
        /\ spawn.out = "error"
        /\ res.name = "new" /\ res.val = "error"
        /\ ppc = "none"
        /\ child.pc = "none"
        /\ child.ctx = "closed"
        /\ nsentinel = 0
        /\ cpipe = 0
        /\ nstatus = 0

\* a spawn whose program did not compile has returned
C16_Witness ==
    /\ spawn.fail = "load"
    /\ spawn.out = "error"
    /\ design = "lpthread"
    /\ spawn.k = 2
    /\ th.errmsg = fail_lua_errmsg(LoadError)
    /\ fds = {}

C19_RefBeforeStart ==
    /\ [](OpenIn(hnd.c, Len(hnd.c)) > 0 => ~q.freed)
    /\ [][/\ (spawn.out = "none" /\ spawn'.out # "none" /\ child'.pc # "none")
             => (/\ q'.refcnt = q.refcnt + spawn'.k
                 /\ nref' = nref + spawn'.k
                 /\ Len(hnd'.c) = spawn'.k
                 /\ \A i \in 1..Len(hnd'.c) : hnd'.c[i] = "open"
                 /\ child'.pc = "start")
          /\ (~q.freed /\ q'.refcnt > q.refcnt) => spawn'.out # spawn.out]_vars

\* the parent closed its handle right after a spawn with two handles, the
\* thread has not run yet
C19_Witness ==
    /\ spawn.k = 2
    /\ child.pc = "start"
    /\ hnd.p = "closed"
    /\ hnd.c = <<"open", "open">>
    /\ q.refcnt = 2
    /\ ~q.freed

\* ------------------------------------------------------------------------
\* Properties of concurrent queue calls (checked under ConcSpec / ConcLive)
\* ------------------------------------------------------------------------
\* the payloads of s that thread t allocated, in the order of s
FromThread(t, s) ==
    LET mine(d) == d \div 10 = PayloadOf(t, 0) \div 10
    IN  SelectSeq(s, mine)

\* the payloads thread t had accepted so far, in the order it pushed them
ProgramOrder(t) == [i \in 1..qop[t].seq |-> PayloadOf(t, i)]

\* C14: a thread cancelled by pthread_cancel inside queue_push / queue_pop,
\* at the pipe read/write while it holds q->mutex, still finishes its exit
\* handler and the mutex is released: eventually the thread has exited and
\* no thread holds the mutex, so that other threads' calls and the parent's
\* join can complete.
C14_CancelledInQueueCall ==
    (qop.c.pc = "cancelled") ~> (child.pc = "exited" /\ mutex = "none")

\* C20: queue_push and queue_pop of several threads take effect one at a
\* time, in the order the mutex is acquired: a thread inside a call owns the
\* mutex, the queue changes only in a step of the owner, the payloads popped
\* are the payloads accepted in that order (popped is a prefix of pushed and
\* the rest is the queue's content), and the payloads of one thread are
\* accepted and popped in the order that thread pushed them.
C20_Linearizable ==
    /\ [](/\ \A t \in Callers :
               qop[t].pc \in {"locked", "unlock"} => mutex = t
          /\ IsPrefix(popped, pushed)
          /\ ~q.freed => pushed = popped \o Contents
          /\ \A t \in Callers :
               /\ FromThread(t, pushed) = ProgramOrder(t)
               /\ IsPrefix(FromThread(t, popped), ProgramOrder(t)))
    /\ [][(pushed' # pushed \/ popped' # popped \/ node' # node)
            => (mutex \in Callers /\ mutex' = mutex
                /\ qop[mutex].pc = "locked" /\ qop'[mutex].pc = "unlock")]_vars

\* both threads pushed twice, their pushes interleaved, and everything was
\* popped
C20_Witness ==
    /\ popped = <<PayloadOf("p", 1), PayloadOf("c", 1), PayloadOf("p", 2),
                  PayloadOf("c", 2)>>
    /\ qop.p.pc = "idle"
    /\ qop.c.pc = "idle"

\* ------------------------------------------------------------------------
\* Further properties of the queue (checked under Spec)
\* ------------------------------------------------------------------------
\* maxitem is set and reached
ItemFull(qq) == qq.maxitem > 0 /\ qq.totalitem >= qq.maxitem

\* the sum of size + sizeof(queue_item_t) over the items linked from a, as
\* an unbounded integer
RECURSIVE WalkBytes(_)
WalkBytes(a) ==
    IF a = NULL THEN 0
    ELSE node[a].size + ItemSize + WalkBytes(node[a].next)

\* the address of the last item linked from a
RECURSIVE WalkLast(_)
WalkLast(a) ==
    IF a = NULL THEN NULL
    ELSE IF node[a].next = NULL THEN a ELSE WalkLast(node[a].next)

\* payload sizes around the byte bound and around the top of size_t
WrapSizes == Sizes \cup {0, 16, 48, 49, 80, 81, SizeMod - ItemSize, SizeMod - 1}

\* C22: a push and a pop can always be made and each returns one of its
\* outcomes in the same call, whatever the queue holds: a push on a queue
\* whose item bound is reached returns Full, a pop on an empty queue
\* returns Empty, and Error is returned only when a pipe operation failed.
C22_NeverBlocks ==
    /\ []((~q.freed /\ nalloc < MaxPush) => ENABLED QueuePush)
    /\ [](~q.freed => ENABLED QueuePop)
    /\ [][/\ op'.name = "push" =>
               /\ push_lua_result(op'.rc) \in {"Accepted", "Full", "Error"}
               /\ (ItemFull(q) /\ ~op'.fault)
                    => push_lua_result(op'.rc) = "Full"
               /\ (push_lua_result(op'.rc) = "Full") => (q' = [q EXCEPT !.status = q'.status] /\ node' = node)
          /\ op'.name = "pop" =>
               /\ pop_lua_result(op'.rc, op'.data) \in {"Item", "Empty", "Error"}
               /\ (q.totalitem = 0) => pop_lua_result(op'.rc, op'.data) = "Empty"
               /\ (pop_lua_result(op'.rc, op'.data) = "Error") => op'.fault]_vars

\* a push on a full queue returned Full and then a pop on the emptied queue
\* returned Empty
C22_Witness ==
    /\ ~q.freed
    /\ op.name = "pop"
    /\ pop_lua_result(op.rc, op.data) = "Empty"
    /\ q.maxitem = 1
    /\ Len(pushed) = 1
    /\ nalloc = 1
    /\ popped = pushed

\* C24 as claimed: each pipe holds at most one byte, and a push or pop that
\* crosses neither the empty / non-empty nor the full / not-full boundary
\* leaves both pipes as they are.
C24_Original ==
    /\ [](~q.freed => (pipe.readable <= 1 /\ pipe.writable <= 1))
    /\ [][(/\ op'.name \in {"push", "pop"}
           /\ ~q'.freed
           /\ q.maxsize = 0
           /\ (q.totalitem = 0) = (q'.totalitem = 0)
           /\ ItemFull(q) = ItemFull(q'))
          => pipe' = pipe]_vars

\* C24 as amended: each pipe holds at most one byte; the readable pipe is
\* written only by a push made on an empty queue and read only by a pop made
\* while one item is linked; the writable pipe is read only by a push that
\* finds the queue full (a push that is rejected) and written only by a pop
\* on a non-empty queue whose writable signal is cleared.  A push that is
\* accepted on a non-empty queue and a pop made on an empty queue or while
\* more than one item is linked and writable is signaled touch no pipe.
C24_PipeBytes ==
    /\ [](~q.freed => (pipe.readable <= 1 /\ pipe.writable <= 1))
    /\ [][(op'.name \in {"push", "pop"} /\ ~q'.freed) =>
            /\ pipe'.readable > pipe.readable
                 => (op'.name = "push" /\ q.totalitem = 0)
            /\ pipe'.readable < pipe.readable
                 => (op'.name = "pop" /\ q.totalitem = 1)
            /\ pipe'.writable < pipe.writable
                 => (op'.name = "push" /\ queue_full(q, op'.size)
                     /\ op'.rc # 1)
            /\ pipe'.writable > pipe.writable
                 => (op'.name = "pop" /\ q.head # NULL
                     /\ QUEUE_STATUS_WRITABLE \notin q.status)]_vars

\* the second of three items was popped with both pipes signaled: no byte
\* moved
C24_Witness ==
    /\ ~q.freed
    /\ op.name = "pop"
    /\ pop_lua_result(op.rc, op.data) = "Item"
    /\ Len(pushed) = 3
    /\ Len(popped) = 2
    /\ pipe.readable = 1
    /\ pipe.writable = 1

\* C25: on a queue with maxsize > 0, totalsize is the exact sum of
\* size + sizeof(queue_item_t) over the linked items and never exceeds
\* maxsize; for every payload size, also sizes above maxsize and sizes near
\* the top of size_t, the capacity test decides as the test computed
\* without wrap-around does, and a push that does not fit is not accepted.
C25_ByteBound ==
    /\ []((~q.freed /\ q.maxsize > 0) =>
            /\ q.totalsize = WalkBytes(q.head)
            /\ q.totalsize <= q.maxsize
            /\ \A size \in WrapSizes :
                 queue_full(q, size)
                   <=> (ItemFull(q)
                        \/ q.totalsize + size + ItemSize > q.maxsize))
    /\ [][(/\ op'.name = "push"
           /\ ~q.freed
           /\ q.maxsize > 0
           /\ q.totalsize + op'.size + ItemSize > q.maxsize)
          => (op'.rc # 1 /\ q'.totalsize = q.totalsize /\ node' = node)]_vars

\* maxsize = 80: two payloads of 8 bytes fill the queue exactly and a third
\* push was rejected
C25_Witness ==
    /\ ~q.freed
    /\ q.maxsize = 80
    /\ q.totalsize = 80
    /\ op.name = "push"
    /\ push_lua_result(op.rc) = "Full"
    /\ Len(pushed) = 2

\* C26: between calls totalitem is the number of items linked from head,
\* tail is the last of them, head and tail are NULL exactly when totalitem
\* is 0, and totalsize is the sum of size + sizeof(queue_item_t) over them
\* (0 on an empty queue).
C26_Counts ==
    ~q.freed =>
        /\ q.totalitem = Len(Contents)
        /\ DOMAIN node = {a \in DOMAIN node : \E i \in 1..Len(Contents) : Contents[i] = node[a].data}
        /\ q.tail = WalkLast(q.head)
        /\ (q.head = NULL) <=> (q.totalitem = 0)
        /\ (q.tail = NULL) <=> (q.totalitem = 0)
        /\ q.totalsize = WalkBytes(q.head) % SizeMod
        /\ q.totalitem = 0 => q.totalsize = 0

\* items were pushed and all of them popped again: the queue is empty
C26_Witness ==
    /\ ~q.freed
    /\ Len(pushed) = 2
    /\ popped = pushed
    /\ q.totalitem = 0
    /\ op.name = "pop"

Stored(str, term) ==
    LET buf == errmsg_store(ZeroBuf, str, term)
        m == IF Len(str) < ErrBufSize - 1 THEN Len(str) ELSE ErrBufSize - 1
    IN  /\ DOMAIN buf = 1..ErrBufSize
        /\ \A i \in 1..m : buf[i] = str[i]
        /\ buf[m + 1] = 0
        /\ th.errmsg = cstr(buf)
        /\ th.errmsg = SubSeq(str, 1, m)

\* C27: for an error text of length L and an errmsg buffer of N bytes, the
\* handle holds the first min(L, N - 1) bytes of the text followed by a 0
\* byte, and nothing is written outside the buffer: after on_cleanup of a
\* failed thread (which writes the terminator) and after FAIL_LUA of
\* lpthread_self_start (which relies on the zeroed buffer).
C27_ErrmsgTruncated ==
    /\ th.status = THREAD_FAILED => Stored(child.err, TRUE)
    /\ (design = "lpthread" /\ spawn.fail \in {"dostring", "load", "ref"})
         => Stored(LoadError, FALSE)

\* a thread failed with a text longer than the buffer
C27_Witness ==
    /\ th.status = THREAD_FAILED
    /\ Len(child.err) > ErrBufSize - 1
    /\ Len(th.errmsg) = ErrBufSize - 1

\* C28: cancel(true) of lpthread.c on a running thread writes one byte to
\* the cancellation pipe, closes and marks the write side and asks for no
\* pthread_cancel; a later cancel(true) finds the side marked and returns
\* true without writing, so the pipe never receives a second byte.  (A
\* write that fails with another error than EINTR is reported and leaves
\* the side open.)
C28_CoopCancelOneByte ==
    /\ [](design = "lpthread" =>
            /\ kpipe <= 1
            /\ kpipe = 1 => th.cancelfd[2] = -1)
    /\ [][(/\ design = "lpthread"
           /\ ppc = "idle"
           /\ ParentStep
           /\ res'.name = "cancel"
           /\ ppc' = "idle")
          => (/\ child' = child
              /\ cpipe' = cpipe
              /\ th.cancelfd[2] = -1
                   => (res'.val = "true" /\ kpipe' = kpipe /\ th' = th)
              /\ (th.status = THREAD_RUNNING /\ th.cancelfd[2] # -1
                  /\ ~res'.fault)
                   => (/\ kpipe = 0
                       /\ kpipe' = 1
                       /\ th'.cancelfd[2] = -1
                       /\ fds' = fds \ {th.cancelfd[2]}
                       /\ res'.val = "true")
              /\ res'.fault => (res'.val = "error" /\ kpipe' = kpipe
                                /\ th' = th))]_vars

\* cancel(true) was called again after the message was sent and returned
\* true
C28_Witness ==
    /\ design = "lpthread"
    /\ res.name = "cancel"
    /\ res.val = "true"
    /\ th.cancelfd[2] = -1
    /\ kpipe = 1
    /\ th.status = THREAD_RUNNING
    /\ child.pc = "pcall"
    /\ ~child.cancel_req
    /\ res.tick = FALSE

\* ------------------------------------------------------------------------
\* Properties of the start handshake (checked under CondSpec)
\* ------------------------------------------------------------------------
\* C29: alloc_lua returns a handle only after the thread created by that
\* very call has run cothread up to its pthread_cond_signal; a signal of a
\* thread created by another call, or a return of the wait without any
\* signal, does not make it return a handle.
C29_HandleAfterOwnStart ==
    \A p \in Spawners :
        cre.sp[p].out = "handle" => <<p, cre.sp[p].n>> \in cre.started

\* C30: when pthread_create fails or the wait times out, alloc_lua returns
\* an error to its caller and CREATION_MUTEX is left unlocked: the process
\* is not ended, no caller is stuck inside alloc_lua, and a caller that got
\* an error does not own the mutex.
C30_FailedSpawnAborts ==
    /\ ~cre.killed
    /\ \A p \in Spawners :
         /\ cre.sp[p].pc # "deadlock"
         /\ cre.sp[p].out = "error" => cre.mutex # p

\* ------------------------------------------------------------------------
\* Properties of the last unref (checked under RaceSpec)
\* ------------------------------------------------------------------------
\* C21: a queue_ref, queue_unref, queue_push or queue_pop that was entered
\* before the last queue_unref freed the queue never reads or writes
\* q->mutex, the counters, the list or the pipes after the free.
C21_LastUnrefSafe ==
    \A t \in Callers : qop[t].pc # "uaf"

\* C34: every handle gives its reference back at most once, however often
\* close() and the finalizer run, and no call on the queue is made through
\* a handle that is closed: such an operation is rejected before it reads
\* or writes the queue.
C34_ClosedHandleInert ==
    /\ nunref <= Cardinality(Callers)
    /\ \A t \in Callers : HandleOf(t) = "closed" => qop[t].pc = "idle"

\* ------------------------------------------------------------------------
\* Failing calls and the writable signal (checked under Spec)
\* ------------------------------------------------------------------------
\* C35: a queue_push or queue_pop that returns -1 because a read or write
\* on a signalling pipe failed leaves the queue as it was before the call:
\* the same items in the same order, the same totalitem and totalsize, the
\* same status flags and the same bytes in both pipes.
C35_ErrorLeavesQueue ==
    [][(/\ ~q.freed
        /\ op'.name \in {"push", "pop"}
        /\ op'.rc = -1
        /\ op'.fault)
         => (q' = q /\ node' = node /\ pipe' = pipe)]_vars

\* C36: whenever the writable descriptor of a live queue is not signaled
\* the queue holds at least one item, so that a pop can signal it again.
C36_UnwritableHasItem ==
    (~q.freed /\ ~Signaled(pipe.writable)) => q.totalitem >= 1

\* C37: a start signal is not lost: the wait of alloc_lua does not time out
\* once the thread created by the call has run its pthread_cond_signal,
\* whether the signal was sent before or after the caller began to wait.
C37_StartSignalKept ==
    [][\A p \in Spawners :
         (/\ cre.sp[p].pc = "waiting"
          /\ cre'.sp[p].pc = "woken"
          /\ cre'.sp[p].rc = ETIMEDOUT)
           => <<p, cre.sp[p].n>> \notin cre.started]_vars

\* ------------------------------------------------------------------------
\* Properties of the worker thread (checked under WorkerLive)
\* ------------------------------------------------------------------------
\* C38: the tasks are run in the order of their submission, and every task
\* submitted is run in the end without another call_lua, unless the handle
\* is collected before.
C38_TasksRun ==
    /\ [](wk.done \o (IF wk.cur = 0 THEN <<>> ELSE <<wk.cur>>) \o wk.tasks
            = [i \in 1..wk.n |-> i])
    /\ \A i \in 1..MaxCall :
         (wk.n >= i) ~> (wk.join = 1 \/ Len(wk.done) >= i)

\* ------------------------------------------------------------------------
\* Properties of the mailboxes (checked under MboxSpec)
\* ------------------------------------------------------------------------
\* C39: two peers that send to each other at the same time do not deadlock:
\* whenever a send is in progress, some send in progress can take its next
\* step.
C39_SendNoDeadlock ==
    (\E m \in Boxes : mb.snd[m].pc # "idle")
        => \E m \in Boxes :
             \/ mb.snd[m].pc \in {"peer", "copied", "pushed"}
             \/ mb.snd[m].pc = "own" /\ mb.mutex[Peer(m)] = "none"

\* the number of elements reached from e by next pointers, n bounding the
\* walk
RECURSIVE ChainLen(_, _, _)
ChainLen(elms, e, n) ==
    IF e = 0 \/ n = 0 THEN 0 ELSE 1 + ChainLen(elms, elms[e].next, n - 1)

\* C40: in every inbox len is the number of linked elements, head is NULL
\* exactly when len is 0, and the elements received are the first of the
\* elements sent, in the order of sending (no element that was rolled back,
\* none twice).
C40_QueueSound ==
    \A m \in Boxes :
        /\ (mb.que[m].head = 0) <=> (mb.que[m].len = 0)
        /\ ChainLen(mb.elm, mb.que[m].head, Len(mb.elm) + 1) = mb.que[m].len
        /\ IsPrefix(mb.got[m], mb.sent[m])

\* ------------------------------------------------------------------------
\* Properties of the pipe I/O loops (checked under RetrySpec)
\* ------------------------------------------------------------------------
\* C31: a read or write of notify, unnotify, join_lua or cancel_lua that
\* fails with EINTR is repeated exactly once: a loop makes two attempts
\* when the first fails with EINTR and one otherwise, and it returns an
\* error when the second attempt fails with EINTR or when an attempt fails
\* with another errno than EINTR and EAGAIN.
C31_RetryOnce ==
    io.out # "none" =>
        /\ io.tries = (IF io.envs[1] = "EINTR" THEN 2 ELSE 1)
        /\ (io.envs[1] = "EINTR" /\ io.envs[2] \in {"EINTR", "EIO"})
              => io.out = "error"
        /\ io.envs[1] = "EIO" => io.out = "error"

\* ------------------------------------------------------------------------
\* Order of the stores of on_cleanup (checked under ThreadSpec)
\* ------------------------------------------------------------------------
\* C32: on_cleanup stores the final status, and the message of a failed
\* program, before it writes the completion byte: once a byte was written
\* the status is terminal and is not stored again, and a join() that reads
\* the byte finds a terminal status and goes on to pthread_join.
C32_StatusBeforeByte ==
    /\ [](nsentinel > 0 =>
            /\ th.status \in Terminal
            /\ nstatus = 1
            /\ th.status = THREAD_FAILED =>
                 th.errmsg = on_cleanup_errmsg(child.lua_status, child.err,
                                               <<>>))
    /\ [][/\ nsentinel' > nsentinel =>
               (child.pc = "write" /\ th.status \in Terminal /\ th' = th)
          /\ cpipe' < cpipe =>
               /\ ParentStep
               /\ res'.name = "join"
               /\ res'.val = "force_join"
               /\ th.status \in Terminal
               /\ ppc' = "join_native"]_vars

\* join() has read the byte of a thread whose program failed
C32_Witness ==
    /\ res.name = "join"
    /\ res.val = "force_join"
    /\ ppc = "join_native"
    /\ th.status = THREAD_FAILED
    /\ th.errmsg # <<>>
    /\ nsentinel = 1
    /\ cpipe = 0

Init == QInit

Next == QNext

Spec == Init /\ [][Next]_vars
====
